---- MODULE Spec2Model ----
(***************************************************************************)
(* A model of the backend of bill_matcher_ai: the record-linkage engine      *)
(* and the summary of backend/matcher.py, the text parser of                 *)
(* backend/bill_processor.py (its regular expressions, field extractors,     *)
(* tabular and fallback strategies) and the normalisation of the             *)
(* provider's entries in backend/nvidia_nim_service.py.  Each of the three   *)
(* is a call followed step by step; a specification runs one of them and     *)
(* leaves the variables of the others idle.  The routes of backend/app.py    *)
(* with the decorators of backend/auth.py and the users table of             *)
(* backend/database.py are modelled one request per step, the admin routes   *)
(* and the session routes each in a specification of their own.              *)
(*                                                                         *)
(* Representation.  A Python str is a sequence of one-character strings;   *)
(* None is the one-element sequence <<"None">>, which is no str because    *)
(* "None" is not a character.  A dict is a function whose DOMAIN is its    *)
(* set of keys, so a missing key is a key outside DOMAIN.  Scores are kept *)
(* in hundredths (0.5 is 50): the sums the code can form in floating point *)
(* (0.0 + 0.5 + 0.3 + {0.2, 0.2*0.7, 0.2*0.5}) order and compare with 0.7  *)
(* exactly as their hundredths do.  List positions are 1-based; the code's *)
(* best_match_idx = -1 ("none") is 0 here.                                 *)
(***************************************************************************)
EXTENDS Integers, Sequences, FiniteSets, TLC

(* ------------------------------------------------------------------ *)
(* Values                                                             *)
(* ------------------------------------------------------------------ *)

None == <<"None">>

\* Marks, in the input domains only, a key the dict does not have.
Absent == <<"Absent">>

\* bool(v) of a str or None: None and '' are falsy.
Truthy(v) == v # None /\ v # <<>>

\* a or b
PyOr(a, b) == IF Truthy(a) THEN a ELSE b

\* d.get(k, default)
Get(d, k, default) == IF k \in DOMAIN d THEN d[k] ELSE default

NA == <<"N", "/", "A">>

Unknown == <<"U", "n", "k", "n", "o", "w", "n">>

(* ------------------------------------------------------------------ *)
(* BillProcessor.normalize_item_name                                  *)
(* ------------------------------------------------------------------ *)

\* The characters of the Python str s, one by one
Chars(s) == [i \in 1..Len(s) |-> SubSeq(s, i, i)]

UpperSeq == Chars("ABCDEFGHIJKLMNOPQRSTUVWXYZ")

LowerSeq == Chars("abcdefghijklmnopqrstuvwxyz")

UpperChars == {UpperSeq[i] : i \in DOMAIN UpperSeq}

LowerChars == {LowerSeq[i] : i \in DOMAIN LowerSeq}

DigitChars == {"0", "1", "2", "3", "4", "5", "6", "7", "8", "9"}

SpaceChars == {" ", "\t"}

\* str.lower() on one character
LowerChar(c) ==
    IF c \in UpperChars
    THEN LowerSeq[CHOOSE i \in DOMAIN UpperSeq : UpperSeq[i] = c]
    ELSE c

\* \w of the regular expressions: letters, digits (and the underscore)
IsWordChar(c) == c \in UpperChars \cup LowerChars \cup DigitChars

IsSpaceChar(c) == c \in SpaceChars

RECURSIVE LowerStr(_)
LowerStr(s) ==
    IF s = <<>> THEN <<>> ELSE <<LowerChar(Head(s))>> \o LowerStr(Tail(s))

\* re.sub(r'[^\w\s]', '', s)
RECURSIVE StripSpecial(_)
StripSpecial(s) ==
    IF s = <<>> THEN <<>>
    ELSE IF IsWordChar(Head(s)) \/ IsSpaceChar(Head(s))
         THEN <<Head(s)>> \o StripSpecial(Tail(s))
         ELSE StripSpecial(Tail(s))

\* re.sub(r'\s+', ' ', s)
RECURSIVE CollapseSpaces(_)
CollapseSpaces(s) ==
    IF s = <<>> THEN <<>>
    ELSE IF IsSpaceChar(Head(s))
         THEN IF Tail(s) # <<>> /\ IsSpaceChar(Head(Tail(s)))
              THEN CollapseSpaces(Tail(s))
              ELSE <<" ">> \o CollapseSpaces(Tail(s))
         ELSE <<Head(s)>> \o CollapseSpaces(Tail(s))

RECURSIVE LStrip(_)
LStrip(s) ==
    IF s # <<>> /\ IsSpaceChar(Head(s)) THEN LStrip(Tail(s)) ELSE s

RECURSIVE RStrip(_)
RStrip(s) ==
    IF s # <<>> /\ IsSpaceChar(s[Len(s)])
    THEN RStrip(SubSeq(s, 1, Len(s) - 1))
    ELSE s

\* str.strip()
Strip(s) == RStrip(LStrip(s))

normalize_item_name(name) ==
    IF ~Truthy(name) THEN <<>>
    ELSE Strip(CollapseSpaces(StripSpecial(LowerStr(name))))

(* ------------------------------------------------------------------ *)
(* ItemMatcher._similarity_score and _calculate_match_score           *)
(* ------------------------------------------------------------------ *)

\* str.split(): the maximal runs of non-space characters
RECURSIVE SplitWords(_, _)
SplitWords(s, word) ==
    IF s = <<>> THEN (IF word = <<>> THEN {} ELSE {word})
    ELSE IF IsSpaceChar(Head(s))
         THEN (IF word = <<>> THEN {} ELSE {word}) \cup SplitWords(Tail(s), <<>>)
         ELSE SplitWords(Tail(s), Append(word, Head(s)))

\* set(s.split())
WordSet(s) == SplitWords(s, <<>>)

\* needle in hay, for two str
Contains(hay, needle) ==
    \E k \in 0..(Len(hay) - Len(needle)) :
        SubSeq(hay, k + 1, k + Len(needle)) = needle

\* The ratio len(intersection) / len(union) as a fraction num/den, den > 0.
similarity_score(str1, str2) ==
    IF str1 = <<>> \/ str2 = <<>> THEN [num |-> 0, den |-> 1]
    ELSE LET words1 == WordSet(str1)
             words2 == WordSet(str2)
         IN  IF words1 = {} \/ words2 = {} THEN [num |-> 0, den |-> 1]
             ELSE [num |-> Cardinality(words1 \cap words2),
                   den |-> Cardinality(words1 \cup words2)]

\* similarity > 0.8
ExceedsSimilarity(sim) == 10 * sim.num > 8 * sim.den

SerialWeight == 50

HsnWeight == 30

NameWeight == 20

\* weights['item_name'] * 0.7
NamePartialWeight == 14

\* weights['item_name'] * 0.5
NameSimilarWeight == 10

\* 'k' in item1 and 'k' in item2, then item1['k'] == item2['k']
FieldEqual(item1, item2, k) ==
    /\ k \in DOMAIN item1
    /\ k \in DOMAIN item2
    /\ item1[k] = item2[k]

SerialScore(item1, item2) ==
    IF FieldEqual(item1, item2, "serial_number") THEN SerialWeight ELSE 0

\* The HSN code looked up under the provider's key 'hsn'
HsnScoreWrongKey(item1, item2) ==
    IF FieldEqual(item1, item2, "hsn") THEN HsnWeight ELSE 0

HsnScore(item1, item2) ==
    IF FieldEqual(item1, item2, "hsn_code") THEN HsnWeight ELSE 0

\* The containment tier tried before the equality tier
NameScoreContainmentFirst(item1, item2) ==
    IF "item_name" \in DOMAIN item1 /\ "item_name" \in DOMAIN item2
    THEN LET name1 == normalize_item_name(item1["item_name"])
             name2 == normalize_item_name(item2["item_name"])
         IN  IF /\ name1 # <<>>
                /\ name2 # <<>>
                /\ (Contains(name2, name1) \/ Contains(name1, name2))
             THEN NamePartialWeight
             ELSE IF name1 = name2 THEN NameWeight
             ELSE IF ExceedsSimilarity(similarity_score(name1, name2))
                  THEN NameSimilarWeight
             ELSE 0
    ELSE 0

\* The containment tier without the test that both names are non-empty
NameScoreEmptyContained(item1, item2) ==
    IF "item_name" \in DOMAIN item1 /\ "item_name" \in DOMAIN item2
    THEN LET name1 == normalize_item_name(item1["item_name"])
             name2 == normalize_item_name(item2["item_name"])
         IN  IF name1 = name2 THEN NameWeight
             ELSE IF Contains(name2, name1) \/ Contains(name1, name2)
                  THEN NamePartialWeight
             ELSE IF ExceedsSimilarity(similarity_score(name1, name2))
                  THEN NameSimilarWeight
             ELSE 0
    ELSE 0

NameScore(item1, item2) ==
    IF "item_name" \in DOMAIN item1 /\ "item_name" \in DOMAIN item2
    THEN LET name1 == normalize_item_name(item1["item_name"])
             name2 == normalize_item_name(item2["item_name"])
         IN  IF name1 = name2 THEN NameWeight
             ELSE IF /\ name1 # <<>>
                     /\ name2 # <<>>
                     /\ (Contains(name2, name1) \/ Contains(name1, name2))
                  THEN NamePartialWeight
             ELSE IF ExceedsSimilarity(similarity_score(name1, name2))
                  THEN NameSimilarWeight
             ELSE 0
    ELSE 0

calculate_match_score(item1, item2) ==
    SerialScore(item1, item2) + HsnScore(item1, item2) + NameScore(item1, item2)

(* ------------------------------------------------------------------ *)
(* ItemMatcher._create_matched_item and _create_unmatched_item        *)
(* ------------------------------------------------------------------ *)

\* The ratio left unscaled
PercentageUnscaled(profit_loss, purchase_price) ==
    IF purchase_price > 0
    THEN [num |-> profit_loss, den |-> purchase_price]
    ELSE [num |-> 0, den |-> 1]

\* (profit_loss / purchase_price * 100) if purchase_price > 0 else 0,
\* kept as the fraction num/den.
Percentage(profit_loss, purchase_price) ==
    IF purchase_price > 0
    THEN [num |-> profit_loss * 100, den |-> purchase_price]
    ELSE [num |-> 0, den |-> 1]

create_matched_item(purchase_item, sale_item) ==
    LET purchase_price == Get(purchase_item, "purchase_price", 0)
        sale_price == Get(sale_item, "sale_price", 0)
        profit_loss == sale_price - purchase_price
        purchase_qty == Get(purchase_item, "quantity", 1)
        sale_qty == Get(sale_item, "quantity", 1)
    IN  [serial_number |-> PyOr(Get(purchase_item, "serial_number", None),
                                Get(sale_item, "serial_number", NA)),
         item_name |-> PyOr(Get(purchase_item, "item_name", None),
                            Get(sale_item, "item_name", Unknown)),
         hsn_code |-> PyOr(Get(purchase_item, "hsn_code", None),
                           Get(sale_item, "hsn_code", NA)),
         quantity |-> IF sale_qty # 0 THEN sale_qty ELSE purchase_qty,
         purchase_quantity |-> purchase_qty,
         sale_quantity |-> sale_qty,
         quantity_mismatch |-> purchase_qty # sale_qty,
         purchase_price |-> purchase_price,
         sale_price |-> sale_price,
         profit_loss |-> profit_loss,
         profit_loss_percentage |-> Percentage(profit_loss, purchase_price),
         status |-> "matched"]

\* Both price fields copied from the record
UnmatchedItemBothPrices(item, item_type) ==
    [serial_number |-> Get(item, "serial_number", NA),
     item_name |-> Get(item, "item_name", Unknown),
     hsn_code |-> Get(item, "hsn_code", NA),
     quantity |-> Get(item, "quantity", 1),
     purchase_price |-> Get(item, "purchase_price", 0),
     sale_price |-> Get(item, "sale_price", 0),
     profit_loss |-> 0,
     profit_loss_percentage |-> [num |-> 0, den |-> 1],
     status |-> "unmatched_" \o item_type]

create_unmatched_item(item, item_type) ==
    [serial_number |-> Get(item, "serial_number", NA),
     item_name |-> Get(item, "item_name", Unknown),
     hsn_code |-> Get(item, "hsn_code", NA),
     quantity |-> Get(item, "quantity", 1),
     purchase_price |->
         IF item_type = "purchase" THEN Get(item, "purchase_price", 0) ELSE 0,
     sale_price |->
         IF item_type = "sale" THEN Get(item, "sale_price", 0) ELSE 0,
     profit_loss |-> 0,
     profit_loss_percentage |-> [num |-> 0, den |-> 1],
     status |-> "unmatched_" \o item_type]

\* sum(item[key] for item in items)
RECURSIVE SumField(_, _)
SumField(items, key) ==
    IF items = <<>> THEN 0
    ELSE items[1][key] + SumField(Tail(items), key)

\* if item['profit_loss'] >= 0
IsProfitOrEven(item) == item.profit_loss >= 0

\* if item['profit_loss'] > 0
IsProfit(item) == item.profit_loss > 0

\* if item['profit_loss'] < 0
IsLoss(item) == item.profit_loss < 0

\* The division made whatever the total is
TotalPercentageUnguarded(total_profit_loss, total_purchase) ==
    [num |-> total_profit_loss * 100, den |-> total_purchase]

\* (total_profit_loss / total_purchase * 100) if total_purchase > 0 else 0
TotalPercentage(total_profit_loss, total_purchase) ==
    IF total_purchase > 0
    THEN [num |-> total_profit_loss * 100, den |-> total_purchase]
    ELSE [num |-> 0, den |-> 1]

calculate_summary(matched_results) ==
    LET matched == matched_results.matched
        unmatched_p == matched_results.unmatched_purchases
        unmatched_s == matched_results.unmatched_sales
        total_purchase == SumField(matched, "purchase_price")
        total_sale == SumField(matched, "sale_price")
        total_profit_loss == total_sale - total_purchase
        total_unmatched_purchase == SumField(unmatched_p, "purchase_price")
        total_unmatched_sale == SumField(unmatched_s, "sale_price")
        profit_items == SelectSeq(matched, IsProfit)
        loss_items == SelectSeq(matched, IsLoss)
    IN  [total_matched_items |-> Len(matched),
         total_unmatched_purchases |-> Len(unmatched_p),
         total_unmatched_sales |-> Len(unmatched_s),
         total_purchase_value |-> total_purchase,
         total_sale_value |-> total_sale,
         total_profit_loss |-> total_profit_loss,
         total_profit_loss_percentage |->
             TotalPercentage(total_profit_loss, total_purchase),
         profit_items_count |-> Len(profit_items),
         loss_items_count |-> Len(loss_items),
         total_unmatched_purchase_value |-> total_unmatched_purchase,
         total_unmatched_sale_value |-> total_unmatched_sale]

(* ------------------------------------------------------------------ *)
(* Regular expressions of BillProcessor                               *)
(*                                                                    *)
(* A regular expression is a sequence of alternatives, an alternative *)
(* a sequence of elements.  re.search takes the leftmost position at  *)
(* which an alternative matches and there the first alternative that  *)
(* does; a repetition takes the longest run with which the rest still *)
(* matches.  With re.IGNORECASE the text is matched lowered against   *)
(* lower-case literals.  Group 1 lies between Open and Close.         *)
(* ------------------------------------------------------------------ *)

\* The literal characters s
Lit(s) == [t |-> "lit", s |-> Chars(s)]

\* (?:s)?
Opt(s) == [t |-> "opt", s |-> Chars(s)]

\* [set]{min,max}; max = 0 stands for no upper limit
Run(set, min, max) == [t |-> "run", set |-> set, min |-> min, max |-> max]

\* \d+(?:,\d+)*(?:\.\d{2})?
Num == [t |-> "num"]

\* \b
Wb == [t |-> "wb"]

\* ^
Bol == [t |-> "bol"]

\* $
Eol == [t |-> "eol"]

Open == [t |-> "open"]

Close == [t |-> "close"]

\* \s*
Ws == Run(SpaceChars, 0, 0)

\* [A-Z0-9\-] under re.IGNORECASE, on the lowered text
CodeChars == LowerChars \cup DigitChars \cup {"-"}

NoMatch == [ok |-> FALSE]

\* text has the characters s from position i on
StartsAt(text, i, s) ==
    /\ i + Len(s) - 1 <= Len(text)
    /\ SubSeq(text, i, i + Len(s) - 1) = s

\* The length of the run of characters of set that starts at position i
RECURSIVE RunLen(_, _, _)
RunLen(text, i, set) ==
    IF i <= Len(text) /\ text[i] \in set
    THEN 1 + RunLen(text, i + 1, set)
    ELSE 0

\* s matches ^\d+(?:,\d+)*(?:\.\d{2})?$
RECURSIVE IsNumber(_)
IsNumber(s) ==
    LET d == RunLen(s, 1, DigitChars)
    IN  /\ d >= 1
        /\ \/ d = Len(s)
           \/ /\ s[d + 1] = ","
              /\ IsNumber(SubSeq(s, d + 2, Len(s)))
           \/ /\ s[d + 1] = "."
              /\ Len(s) = d + 3
              /\ s[d + 2] \in DigitChars
              /\ s[d + 3] \in DigitChars

\* \b at position i: a word character on exactly one side
IsBoundary(text, i) ==
    LET before == i > 1 /\ IsWordChar(text[i - 1])
        after == i <= Len(text) /\ IsWordChar(text[i])
    IN  before # after

\* The match m if it is one, otherwise the match tried next
OrElse(m, next) == IF m.ok THEN m ELSE next

\* The match of the elements k.. of alt at position i of text
RECURSIVE MatchFrom(_, _, _, _, _, _)
RECURSIVE TryLengths(_, _, _, _, _, _, _, _)
MatchFrom(alt, k, text, i, open, close) ==
    IF k > Len(alt)
    THEN [ok |-> TRUE, end |-> i, open |-> open, close |-> close]
    ELSE CASE alt[k].t = "lit" ->
                IF StartsAt(text, i, alt[k].s)
                THEN MatchFrom(alt, k + 1, text, i + Len(alt[k].s), open,
                               close)
                ELSE NoMatch
           [] alt[k].t = "opt" ->
                OrElse(IF StartsAt(text, i, alt[k].s)
                       THEN MatchFrom(alt, k + 1, text, i + Len(alt[k].s),
                                      open, close)
                       ELSE NoMatch,
                       MatchFrom(alt, k + 1, text, i, open, close))
           [] alt[k].t = "run" ->
                TryLengths(alt, k, text, i, open, close,
                           RunLen(text, i, alt[k].set), alt[k].min)
           [] alt[k].t = "num" ->
                TryLengths(alt, k, text, i, open, close,
                           RunLen(text, i, DigitChars \cup {",", "."}), 1)
           [] alt[k].t = "wb" ->
                IF IsBoundary(text, i)
                THEN MatchFrom(alt, k + 1, text, i, open, close)
                ELSE NoMatch
           [] alt[k].t = "bol" ->
                IF i = 1
                THEN MatchFrom(alt, k + 1, text, i, open, close)
                ELSE NoMatch
           [] alt[k].t = "eol" ->
                IF i = Len(text) + 1
                THEN MatchFrom(alt, k + 1, text, i, open, close)
                ELSE NoMatch
           [] alt[k].t = "open" ->
                MatchFrom(alt, k + 1, text, i, i, close)
           [] alt[k].t = "close" ->
                MatchFrom(alt, k + 1, text, i, open, i)

\* n characters are a length the element el can take at position i
Fits(el, text, i, n) ==
    IF el.t = "run" THEN el.max = 0 \/ n <= el.max
    ELSE IsNumber(SubSeq(text, i, i + n - 1))

\* Element k of alt taking n characters, then n - 1, ... down to least
TryLengths(alt, k, text, i, open, close, n, least) ==
    IF n < least THEN NoMatch
    ELSE OrElse(IF Fits(alt[k], text, i, n)
                THEN MatchFrom(alt, k + 1, text, i + n, open, close)
                ELSE NoMatch,
                TryLengths(alt, k, text, i, open, close, n - 1, least))

\* The first alternative of regex, from the a-th on, that matches at i
RECURSIVE MatchAt(_, _, _, _)
MatchAt(regex, a, text, i) ==
    IF a > Len(regex) THEN NoMatch
    ELSE OrElse(MatchFrom(regex[a], 1, text, i, 0, 0),
                MatchAt(regex, a + 1, text, i))

\* re.search(regex, text), looking from position i on
RECURSIVE Search(_, _, _)
Search(regex, text, i) ==
    IF i > Len(text) + 1 THEN NoMatch
    ELSE OrElse(MatchAt(regex, 1, text, i), Search(regex, text, i + 1))

\* match.group(1), taken from text, and otherwise when there is no match
Group1(text, m, otherwise) ==
    IF m.ok THEN SubSeq(text, m.open, m.close - 1) ELSE otherwise

\* re.sub(regex, '', text, flags=re.IGNORECASE) from position i on;
\* lowered is text.lower()
RECURSIVE SubAll(_, _, _, _)
RECURSIVE SubAfter(_, _, _, _, _)
SubAll(regex, lowered, text, i) ==
    IF i > Len(text) THEN <<>>
    ELSE SubAfter(MatchAt(regex, 1, lowered, i), regex, lowered, text, i)

\* The match m at position i left out, or the character at i kept
SubAfter(m, regex, lowered, text, i) ==
    IF m.ok /\ m.end > i
    THEN SubAll(regex, lowered, text, m.end)
    ELSE <<text[i]>> \o SubAll(regex, lowered, text, i + 1)

\* re.split(regex, text) from position i on; part is the part begun
RECURSIVE SplitBy(_, _, _, _)
RECURSIVE SplitAfter(_, _, _, _, _)
SplitBy(regex, text, i, part) ==
    IF i > Len(text) THEN <<part>>
    ELSE SplitAfter(MatchAt(regex, 1, text, i), regex, text, i, part)

\* The part ended by the match m at position i, or the character added
SplitAfter(m, regex, text, i, part) ==
    IF m.ok /\ m.end > i
    THEN <<part>> \o SplitBy(regex, text, m.end, <<>>)
    ELSE SplitBy(regex, text, i + 1, Append(part, text[i]))

\* The first regex of the list patterns, from the n-th on, found in text
RECURSIVE FirstFound(_, _, _)
FirstFound(patterns, text, n) ==
    IF n > Len(patterns) THEN NoMatch
    ELSE OrElse(Search(patterns[n], text, 1),
                FirstFound(patterns, text, n + 1))

\* prefix \s*:?\s*( capture )
Labelled(prefix, capture) ==
    prefix \o <<Ws, Opt(":"), Ws, Open>> \o capture \o <<Close>>

\* serial_patterns
SerialPatterns ==
    <<  <<Labelled(<<Lit("serial"), Ws, Lit("no"), Opt(".")>>,
                   <<Run(CodeChars, 1, 0)>>),
          Labelled(<<Lit("s"), Opt("."), Lit("n"), Opt(".")>>,
                   <<Run(CodeChars, 1, 0)>>),
          Labelled(<<Lit("sr"), Opt("."), Ws, Lit("no"), Opt(".")>>,
                   <<Run(CodeChars, 1, 0)>>)>>,
        <<Labelled(<<Lit("item"), Ws, Lit("code")>>,
                   <<Run(CodeChars, 1, 0)>>),
          Labelled(<<Lit("product"), Ws, Lit("code")>>,
                   <<Run(CodeChars, 1, 0)>>)>>  >>

\* \b([A-Z]{2,}\d{2,}|\d{2,}[A-Z]{2,})\b
AlnumCodePattern ==
    <<  <<Wb, Open, Run(LowerChars, 2, 0), Run(DigitChars, 2, 0), Close,
          Wb>>,
        <<Wb, Open, Run(DigitChars, 2, 0), Run(LowerChars, 2, 0), Close,
          Wb>>  >>

\* hsn_patterns
HsnPatterns ==
    <<  <<Labelled(<<Lit("hsn")>>, <<Run(DigitChars, 4, 8)>>),
          Labelled(<<Lit("hsn"), Ws, Lit("code")>>,
                   <<Run(DigitChars, 4, 8)>>)>>,
        <<  <<Lit("hsn"), Run({":", "/"} \cup SpaceChars, 0, 0), Open,
              Run(DigitChars, 4, 8), Close>>  >>  >>

\* (?:rs\.?|<rupee sign>)?\s*( number ) after the label word
PriceAfter(word) ==
    <<  <<Lit(word), Ws, Opt(":"), Ws, Lit("rs"), Opt("."), Ws, Open, Num,
          Close>>,
        <<Lit(word), Ws, Opt(":"), Ws, Lit("₹"), Ws, Open, Num, Close>>,
        <<Lit(word), Ws, Opt(":"), Ws, Ws, Open, Num, Close>>  >>

\* price_patterns
PricePatterns ==
    <<  <<  <<Lit("rs"), Opt("."), Ws, Open, Num, Close>>,
            <<Lit("₹"), Ws, Open, Num, Close>>,
            <<Lit("inr"), Ws, Open, Num, Close>>  >>,
        PriceAfter("amount") \o PriceAfter("price") \o PriceAfter("rate")
            \o PriceAfter("value"),
        PriceAfter("total") \o PriceAfter("subtotal")  >>

\* \b(\d+(?:,\d+)*(?:\.\d{2})?)\b
BareNumberPattern == <<  <<Wb, Open, Num, Close, Wb>>  >>

\* word( optional )\s*:?\s*(\d+)
QuantityAfter(word, optional) ==
    Labelled(<<Lit(word), Opt(optional)>>, <<Run(DigitChars, 1, 0)>>)

\* (\d+)\s*word( optional )
QuantityBefore(word, optional) ==
    <<Open, Run(DigitChars, 1, 0), Close, Ws, Lit(word), Opt(optional)>>

\* quantity_patterns
QuantityPatterns ==
    <<  <<QuantityAfter("qty", ""), QuantityAfter("quantity", ""),
          QuantityAfter("unit", "s"), QuantityAfter("no", "s"),
          QuantityAfter("pc", "s"), QuantityAfter("piece", "s")>>,
        <<QuantityBefore("qty", ""), QuantityBefore("unit", "s"),
          QuantityBefore("no", "s"), QuantityBefore("pc", "s"),
          QuantityBefore("piece", "s")>>  >>

\* ^(?:item|product|description|particular)\s*:?\s*
NamePrefixPattern ==
    <<  <<Bol, Lit("item"), Ws, Opt(":"), Ws>>,
        <<Bol, Lit("product"), Ws, Opt(":"), Ws>>,
        <<Bol, Lit("description"), Ws, Opt(":"), Ws>>,
        <<Bol, Lit("particular"), Ws, Opt(":"), Ws>>  >>

\* \b(?:hsn|s\.?n\.?)\s*:?\s*\d+
NameCodePattern ==
    <<  <<Wb, Lit("hsn"), Ws, Opt(":"), Ws, Run(DigitChars, 1, 0)>>,
        <<Wb, Lit("s"), Opt("."), Lit("n"), Opt("."), Ws, Opt(":"), Ws,
          Run(DigitChars, 1, 0)>>  >>

\* (?:rs\.?|<rupee sign>)\s*\d+
NamePricePattern ==
    <<  <<Lit("rs"), Opt("."), Ws, Run(DigitChars, 1, 0)>>,
        <<Lit("₹"), Ws, Run(DigitChars, 1, 0)>>  >>

\* \s{2,}|\t
ColumnGapPattern == <<  <<Run(SpaceChars, 2, 0)>>, <<Lit("\t")>>  >>

(* ------------------------------------------------------------------ *)
(* BillProcessor: the field extractors                                *)
(*                                                                    *)
(* A number an extractor returns is <<n>>, and <<>> when it returns   *)
(* None.  Prices are in hundredths (500.00 is 50000), quantities are  *)
(* integers.                                                          *)
(* ------------------------------------------------------------------ *)

\* str.upper() on one character
UpperChar(c) ==
    IF c \in LowerChars
    THEN UpperSeq[CHOOSE i \in DOMAIN LowerSeq : LowerSeq[i] = c]
    ELSE c

RECURSIVE UpperStr(_)
UpperStr(s) ==
    IF s = <<>> THEN <<>> ELSE <<UpperChar(Head(s))>> \o UpperStr(Tail(s))

DigitSeq == Chars("0123456789")

\* int(c) of one digit
DigitValue(c) == (CHOOSE i \in DOMAIN DigitSeq : DigitSeq[i] = c) - 1

\* int(s) of a string of digits
RECURSIVE IntOf(_)
IntOf(s) ==
    IF s = <<>> THEN 0
    ELSE IntOf(SubSeq(s, 1, Len(s) - 1)) * 10 + DigitValue(s[Len(s)])

\* str.replace(',', '')
RECURSIVE RemoveCommas(_)
RemoveCommas(s) ==
    IF s = <<>> THEN <<>>
    ELSE IF Head(s) = "," THEN RemoveCommas(Tail(s))
         ELSE <<Head(s)>> \o RemoveCommas(Tail(s))

\* float(price_str.replace(',', '')), in hundredths
PriceOfStr(price_str) ==
    LET digits == RemoveCommas(price_str)
        n == Len(digits)
    IN  IF n > 3 /\ digits[n - 2] = "."
        THEN IntOf(SubSeq(digits, 1, n - 3)) * 100
             + IntOf(SubSeq(digits, n - 1, n))
        ELSE IntOf(digits) * 100

NoNumber == <<>>

\* str.isdigit()
IsDigits(s) == s # <<>> /\ \A i \in DOMAIN s : s[i] \in DigitChars

\* re.match(r'^[A-Z0-9\-]+$', part)
IsCode(part) ==
    /\ part # <<>>
    /\ \A i \in DOMAIN part : part[i] \in UpperChars \cup DigitChars \cup {"-"}

MaxSerialLen == 15

\* re.match(r'^\d{4,8}$', part)
IsHsnCode(part) == IsDigits(part) /\ Len(part) >= 4 /\ Len(part) <= 8

\* re.match(r'^\d{1,3}$', part)
IsShortNumber(part) == IsDigits(part) /\ Len(part) <= 3

MaxRowQuantity == 999

MaxQuantity == 99999

\* 0.01 and 10000000, in hundredths
MinPrice == 1

MaxPrice == 1000000000

\* str.upper() of a str, None left as it is
UpperOrNone(v) == IF v = None THEN None ELSE UpperStr(v)

extract_serial_number(text) ==
    UpperOrNone(
        Group1(LowerStr(text), FirstFound(SerialPatterns, LowerStr(text), 1),
               Group1(text, Search(AlnumCodePattern, LowerStr(text), 1),
                      None)))

extract_hsn_code(text) ==
    Group1(text, FirstFound(HsnPatterns, LowerStr(text), 1), None)

\* int(match.group(1)) when it lies in 1..99999
QuantityIn(digits) ==
    IF digits # None /\ 1 <= IntOf(digits) /\ IntOf(digits) <= MaxQuantity
    THEN <<IntOf(digits)>>
    ELSE NoNumber

\* The number found, otherwise the next one tried
NumberOr(found, next) == IF found # NoNumber THEN found ELSE next

\* The loop of _extract_quantity over quantity_patterns, from the n-th on
RECURSIVE QuantityFrom(_, _)
QuantityFrom(text, n) ==
    IF n > Len(QuantityPatterns) THEN NoNumber
    ELSE NumberOr(
             QuantityIn(Group1(text,
                               Search(QuantityPatterns[n], LowerStr(text),
                                      1),
                               None)),
             QuantityFrom(text, n + 1))

extract_quantity(text) == QuantityFrom(text, 1)

\* re.search(r'[a-zA-Z]', text)
HasLetter(text) ==
    \E i \in DOMAIN text : text[i] \in UpperChars \cup LowerChars

\* re.sub(regex, '', text, flags=re.IGNORECASE)
Sub(regex, text) == SubAll(regex, LowerStr(text), text, 1)

\* The name left of unprefixed, the text without its label
NameOf(unprefixed) ==
    IF Len(unprefixed) > 2 /\ HasLetter(unprefixed)
    THEN Strip(Sub(NamePricePattern, Sub(NameCodePattern, unprefixed)))
    ELSE <<>>

\* `return text` when text is not empty, else None
StrOrNone(text) == IF text = <<>> THEN None ELSE text

extract_item_name(text) ==
    StrOrNone(NameOf(Strip(Sub(NamePrefixPattern, text))))

\* float(match.group(1).replace(',', '')) of a labelled price
LabelledPrice(price_str) ==
    IF price_str = None THEN NoNumber ELSE <<PriceOfStr(price_str)>>

\* The bare number when it lies in 0.01..10000000
BarePrice(price_str) ==
    IF /\ price_str # None
       /\ MinPrice <= PriceOfStr(price_str)
       /\ PriceOfStr(price_str) <= MaxPrice
    THEN <<PriceOfStr(price_str)>>
    ELSE NoNumber

extract_price(text) ==
    NumberOr(
        LabelledPrice(Group1(text, FirstFound(PricePatterns, LowerStr(text),
                                              1),
                             None)),
        BarePrice(Group1(text, Search(BareNumberPattern, text, 1), None)))

\* if price, if quantity: a number that is neither None nor 0
TruthyNumber(number) == number # NoNumber /\ number[1] # 0

\* d[k] = v
Put(d, k, v) == (k :> v) @@ d

\* The price test left out
HasIdentifierOnly(item) ==
    \/ "item_name" \in DOMAIN item
    \/ "serial_number" \in DOMAIN item
    \/ "hsn_code" \in DOMAIN item

is_valid_item(item) ==
    LET has_identifier ==
            \/ "item_name" \in DOMAIN item
            \/ "serial_number" \in DOMAIN item
            \/ "hsn_code" \in DOMAIN item
        has_price ==
            \/ "purchase_price" \in DOMAIN item
            \/ "sale_price" \in DOMAIN item
    IN  has_identifier /\ has_price

\* item[key] = value when test holds
PutIf(test, item, key, value) == IF test THEN Put(item, key, value) ELSE item

\* The serial number check of _parse_table_row
RowSerial(item, part) ==
    PutIf(IsCode(part) /\ Len(part) <= MaxSerialLen
              /\ "serial_number" \notin DOMAIN item,
          item, "serial_number", part)

\* The HSN code kept from the first token that has one
RowHsnFirst(item, part) ==
    PutIf(IsHsnCode(part) /\ "hsn_code" \notin DOMAIN item, item, "hsn_code",
          part)

\* The HSN code check of _parse_table_row
RowHsn(item, part) == PutIf(IsHsnCode(part), item, "hsn_code", part)

\* The quantity check of _parse_table_row holds: the part is classified
\* no further
RowIsQuantity(item, part) ==
    /\ IsShortNumber(part)
    /\ "quantity" \notin DOMAIN item
    /\ 1 <= IntOf(part)
    /\ IntOf(part) <= MaxRowQuantity

\* The price and item name checks of _parse_table_row
RowPriceOrName(item, part, price, type) ==
    IF TruthyNumber(price) THEN Put(item, type \o "_price", price[1])
    ELSE PutIf(/\ Len(part) > 3
               /\ ~IsDigits(part)
               /\ "item_name" \notin DOMAIN item
               /\ ~IsCode(part),
               item, "item_name", part)

\* The quantity, price and item name checks of _parse_table_row
RowRest(item, part, type) ==
    IF RowIsQuantity(item, part) THEN Put(item, "quantity", IntOf(part))
    ELSE RowPriceOrName(item, part, extract_price(part), type)

\* The body of the loop of _parse_table_row for one part, stripped
RowPart(item, part, type) ==
    IF part = <<>> THEN item
    ELSE RowRest(RowHsn(RowSerial(item, part), part), part, type)

\* The empty dict
EmptyItem == [k \in {} |-> k]

\* for part in parts, from the n-th part on
RECURSIVE ParseRowParts(_, _, _, _)
ParseRowParts(item, parts, n, bill_type) ==
    IF n > Len(parts) THEN item
    ELSE ParseRowParts(RowPart(item, Strip(parts[n]), bill_type), parts,
                       n + 1, bill_type)

\* `return item if item else None`: the empty dict stands for the None
\* returned in its place, which the caller tests with `if item` alone.
parse_table_row(line, bill_type) ==
    LET parts == SplitBy(ColumnGapPattern, line, 1, <<>>)
    IN  ParseRowParts(EmptyItem, parts, 1, bill_type)

\* any(keyword in lower_line for keyword in [...])
IsHeaderLine(line) ==
    LET lower_line == LowerStr(line)
    IN  \/ Contains(lower_line, Chars("item"))
        \/ Contains(lower_line, Chars("description"))
        \/ Contains(lower_line, Chars("particular"))
        \/ Contains(lower_line, Chars("product"))

(* ------------------------------------------------------------------ *)
(* NvidiaNIMService: normalising the provider's entries               *)
(*                                                                    *)
(* A value json.loads returns is a record with its type in t: null,   *)
(* str (s its characters), int (n the number), float (h the number in *)
(* hundredths), inf (the float Infinity) and dict (d the function     *)
(* from its keys).  A price is a float, so a value of type float or   *)
(* inf; a quantity is an int.                                         *)
(* ------------------------------------------------------------------ *)

JNull == [t |-> "null"]

\* The str of the characters s
JChars(s) == [t |-> "str", s |-> s]

JStr(s) == JChars(Chars(s))

JInt(n) == [t |-> "int", n |-> n]

JFloat(hundredths) == [t |-> "float", h |-> hundredths]

JInf == [t |-> "inf"]

JDict(d) == [t |-> "dict", d |-> d]

\* What a call that raised leaves in place of a value
Raised == [t |-> "raised"]

\* bool(x)
JTruthy(x) ==
    CASE x.t = "null" -> FALSE
      [] x.t = "str" -> x.s # <<>>
      [] x.t = "int" -> x.n # 0
      [] x.t = "float" -> x.h # 0
      [] x.t = "dict" -> DOMAIN x.d # {}
      [] OTHER -> TRUE

\* a or b
Or(a, b) == IF JTruthy(a) THEN a ELSE b

\* item.get(key)
JGet(item, key) == IF key \in DOMAIN item.d THEN item.d[key] ELSE JNull

\* str(n) of an integer n >= 0
RECURSIVE NatStr(_)
NatStr(n) ==
    IF n < 10 THEN <<DigitSeq[n + 1]>>
    ELSE NatStr(n \div 10) \o <<DigitSeq[(n % 10) + 1]>>

\* The digits after the point in str(x) of a float x >= 0 in hundredths
FractionStr(hundredths) ==
    IF hundredths % 10 = 0 THEN NatStr((hundredths % 100) \div 10)
    ELSE NatStr((hundredths % 100) \div 10) \o NatStr(hundredths % 10)

\* str(x) of a float in hundredths
FloatStr(hundredths) ==
    IF hundredths < 0
    THEN <<"-">> \o NatStr((-hundredths) \div 100) \o <<".">>
         \o FractionStr(-hundredths)
    ELSE NatStr(hundredths \div 100) \o <<".">> \o FractionStr(hundredths)

\* str(x) of a str, an int, a float
Str(x) ==
    CASE x.t = "str" -> x.s
      [] x.t = "int" ->
             IF x.n < 0 THEN <<"-">> \o NatStr(-x.n) ELSE NatStr(x.n)
      [] x.t = "float" -> FloatStr(x.h)
      [] x.t = "inf" -> Chars("inf")
      [] OTHER -> Chars("None")

\* re.sub(r'[₹$,\s]', '', price_value)
RECURSIVE CleanPrice(_)
CleanPrice(s) ==
    IF s = <<>> THEN <<>>
    ELSE IF Head(s) \in {"₹", "$", ","} \cup SpaceChars
         THEN CleanPrice(Tail(s))
         ELSE <<Head(s)>> \o CleanPrice(Tail(s))

\* The position of the first character c of s, 0 when there is none
First(s, c) ==
    IF \E i \in DOMAIN s : s[i] = c
    THEN CHOOSE i \in DOMAIN s : s[i] = c /\ \A j \in 1..(i - 1) : s[j] # c
    ELSE 0

\* s is digits with at most one point, at most two of them after it
IsDecimal(s, point) ==
    IF point = 0 THEN IsDigits(s)
    ELSE /\ Len(s) > 1
         /\ Len(s) - point <= 2
         /\ \A i \in DOMAIN s : i # point => s[i] \in DigitChars

\* The value in hundredths of the decimal s with its point at point
DecimalOf(s, point) ==
    IF point = 0 THEN IntOf(s) * 100
    ELSE IntOf(SubSeq(s, 1, point - 1)) * 100
         + (IF Len(s) - point = 1 THEN 10 * IntOf(SubSeq(s, point + 1, Len(s)))
            ELSE IntOf(SubSeq(s, point + 1, Len(s))))

\* float(s) of an unsigned s, 0.0 on ValueError
UnsignedFloatOf(s, point) ==
    IF IsDecimal(s, point) THEN DecimalOf(s, point) ELSE 0

\* float(s) of a string without exponent, 0.0 on ValueError
FloatOf(s) ==
    IF LowerStr(s) \in {Chars("inf"), Chars("infinity"), Chars("+inf"),
                        Chars("+infinity")}
    THEN JInf
    ELSE IF s # <<>> /\ Head(s) = "-"
         THEN JFloat(-UnsignedFloatOf(Tail(s), First(Tail(s), ".")))
    ELSE IF s # <<>> /\ Head(s) = "+"
         THEN JFloat(UnsignedFloatOf(Tail(s), First(Tail(s), ".")))
    ELSE JFloat(UnsignedFloatOf(s, First(s, ".")))

\* _parse_price
parse_price(price_value) ==
    CASE price_value.t = "int" -> JFloat(price_value.n * 100)
      [] price_value.t = "float" -> price_value
      [] price_value.t = "inf" -> JInf
      [] price_value.t = "str" -> FloatOf(CleanPrice(price_value.s))
      [] OTHER -> JFloat(0)

\* max(1, n)
AtLeastOne(n) == IF n < 1 THEN 1 ELSE n

\* int(x) of a float in hundredths: the fraction is cut off
IntOfFloat(hundredths) ==
    IF hundredths < 0 THEN -((-hundredths) \div 100) ELSE hundredths \div 100

\* re.match(r'^\s*(\d+)\s*/\s*(\d+)\s*$', s), slash the position of '/'
IsFraction(s, slash) ==
    /\ slash > 0
    /\ IsDigits(Strip(SubSeq(s, 1, slash - 1)))
    /\ IsDigits(Strip(SubSeq(s, slash + 1, Len(s))))

\* max(1, int(float(num) / float(den))), and 1 when den is 0
FractionQuantity(num, den) ==
    IF den = 0 THEN 1 ELSE AtLeastOne(num \div den)

\* The position of the first digit of s, 0 when there is none
FirstDigit(s) ==
    IF \E i \in DOMAIN s : s[i] \in DigitChars
    THEN CHOOSE i \in DOMAIN s :
             s[i] \in DigitChars /\ \A j \in 1..(i - 1) : s[j] \notin DigitChars
    ELSE 0

\* max(1, int(float(m.group(1)))) of re.search(r'(\d+(?:\.\d+)?)', s),
\* the match beginning at the digit at position digit; 1 without a match
NumberQuantity(s, digit) ==
    IF digit = 0 THEN 1
    ELSE AtLeastOne(IntOf(SubSeq(s, digit,
                                 digit + RunLen(s, digit, DigitChars) - 1)))

\* The str branch of _parse_quantity, s = qty_value.strip()
StrQuantity(s, slash) ==
    IF IsFraction(s, slash)
    THEN FractionQuantity(IntOf(Strip(SubSeq(s, 1, slash - 1))),
                          IntOf(Strip(SubSeq(s, slash + 1, Len(s)))))
    ELSE NumberQuantity(s, FirstDigit(s))

\* _parse_quantity; int(inf) raises OverflowError
parse_quantity(qty_value) ==
    CASE qty_value.t = "int" -> JInt(AtLeastOne(qty_value.n))
      [] qty_value.t = "float" -> JInt(AtLeastOne(IntOfFloat(qty_value.h)))
      [] qty_value.t = "inf" -> Raised
      [] qty_value.t = "str" ->
             JInt(StrQuantity(Strip(qty_value.s),
                              First(Strip(qty_value.s), "/")))
      [] OTHER -> JInt(1)

\* item.get('item_name') or item.get('name') or ...
ItemNameOf(item) ==
    Or(JGet(item, "item_name"),
       Or(JGet(item, "name"), Or(JGet(item, "description"),
                                JGet(item, "product"))))

\* str(item.get('hsn_code') or item.get('hsn') or ... or '')
HsnCodeOf(item) ==
    JChars(Str(Or(JGet(item, "hsn_code"),
                 Or(JGet(item, "hsn"),
                    Or(JGet(item, "hsncode"),
                       Or(JGet(item, "hsn_sac"), JStr("")))))))

\* if not item_name and hsn_code: item_name = f"HSN: {hsn_code}"
NameOrHsn(item_name, hsn_code) ==
    IF ~JTruthy(item_name) /\ JTruthy(hsn_code)
    THEN JChars(Chars("HSN: ") \o hsn_code.s)
    ELSE item_name

SerialOf(item) ==
    Or(JGet(item, "serial_number"), Or(JGet(item, "sn"), JGet(item, "serial")))

QuantityOf(item) ==
    parse_quantity(Or(JGet(item, "quantity"),
                      Or(JGet(item, "qty"), Or(JGet(item, "units"), JInt(1)))))

PriceOfEntry(item) ==
    parse_price(Or(JGet(item, "price"),
                   Or(JGet(item, "amount"),
                      Or(JGet(item, "value"),
                         Or(JGet(item, "taxable_value"), JInt(0))))))

\* The dict literal normalized
NormalizedWith(item, price_key, hsn_code, quantity) ==
    IF quantity = Raised THEN Raised
    ELSE ("serial_number" :> SerialOf(item))
         @@ ("item_name" :> NameOrHsn(ItemNameOf(item), hsn_code))
         @@ ("hsn_code" :> hsn_code)
         @@ ("quantity" :> quantity)
         @@ (price_key :> PriceOfEntry(item))

\* normalized of the entry item, Raised when building it raises
Normalized(item, type) ==
    NormalizedWith(item, type \o "_price", HsnCodeOf(item), QuantityOf(item))

\* if normalized['item_name'] or normalized[price_key]
Keeps(normalized, price_key) ==
    JTruthy(normalized["item_name"]) \/ JTruthy(normalized[price_key])

(* ------------------------------------------------------------------ *)
(* Input domains                                                      *)
(* ------------------------------------------------------------------ *)

SerialA1 == <<"A", "1">>

SerialB2 == <<"B", "2">>

Hsn8528 == <<"8", "5", "2", "8">>

Hsn9999 == <<"9", "9", "9", "9">>

NameTv == <<"t", "v">>

\* "TV " normalises to "tv"
NameTvUpper == <<"T", "V", " ">>

\* "tv x" contains "tv"
NameTvX == <<"t", "v", " ", "x">>

\* "x  tv" has the words of "tv x" in another order
NameXTv == <<"x", " ", " ", "t", "v">>

\* "x-" normalises to "x"
NameX == <<"x", "-">>

\* "t x" shares one word of three with "tv x"
NameTX == <<"t", " ", "x">>

\* "-" normalises to the empty string
NameDash == <<"-">>

\* The dict with the keys whose value is not Absent.
MkItem(serial, hsn, name) ==
    LET keys == (IF serial = Absent THEN {} ELSE {"serial_number"})
                \cup (IF hsn = Absent THEN {} ELSE {"hsn_code"})
                \cup (IF name = Absent THEN {} ELSE {"item_name"})
    IN  [k \in keys |->
            IF k = "serial_number" THEN serial
            ELSE IF k = "hsn_code" THEN hsn
            ELSE name]

\* The records the two parsers and the provider normalisation can store:
\* a key may be missing (BillProcessor builds the dict field by field),
\* serial_number and item_name may be None and hsn_code '' (the provider
\* normalisation stores every key).
SerialValues == {Absent, None, SerialA1, SerialB2}

HsnValues == {Absent, <<>>, Hsn8528, Hsn9999}

NameValues ==
    {Absent, None, <<>>, NameTv, NameTvUpper, NameTvX, NameXTv, NameX,
     NameTX, NameDash}

AllItems ==
    {MkItem(s, h, n) : s \in SerialValues, h \in HsnValues, n \in NameValues}

\* The records of the list-level runs.  Their pairwise scores are
\*        A    B    C    D    E
\*   A  100   70   80   50    0
\*   B   70   70   50   20    0
\*   C   80   50  100   30   20
\*   D   50   20   30  100   50
\*   E    0    0   20   50   70
\* so a purchase can meet sales above, at and below the threshold, and ties.
ItemA == MkItem(SerialA1, Hsn8528, NameTv)

ItemB == MkItem(SerialA1, Absent, NameTvUpper)

ItemC == MkItem(SerialA1, Hsn8528, NameX)

ItemD == MkItem(SerialB2, Hsn8528, NameTv)

ItemE == MkItem(SerialB2, Absent, NameX)

Catalogue == {ItemA, ItemB, ItemC, ItemD, ItemE}

\* No value for a key of PricedItem
NoKey == <<>>

\* The record with the price and quantity keys that are given a value,
\* each argument being NoKey or <<value>>.
PricedItem(item, purchase_price, sale_price, quantity) ==
    LET keys == (IF purchase_price = NoKey THEN {} ELSE {"purchase_price"})
                \cup (IF sale_price = NoKey THEN {} ELSE {"sale_price"})
                \cup (IF quantity = NoKey THEN {} ELSE {"quantity"})
    IN  item @@ [k \in keys |->
                    IF k = "purchase_price" THEN purchase_price[1]
                    ELSE IF k = "sale_price" THEN sale_price[1]
                    ELSE quantity[1]]

\* The records of the priced runs.  Prices are whole amounts, zero
\* included.  ItemA matches ItemA; a record with serial B2 matches none.
\* One purchase also holds a sale_price, one sale also a purchase_price,
\* and one record of each side has no price key.
PurchaseCatalogue ==
    {PricedItem(ItemA, <<100>>, NoKey, <<2>>),
     PricedItem(ItemA, <<0>>, NoKey, NoKey),
     PricedItem(ItemA, <<120>>, <<999>>, NoKey),
     PricedItem(ItemA, NoKey, NoKey, NoKey),
     PricedItem(ItemE, <<100>>, <<999>>, NoKey)}

SaleCatalogue ==
    {PricedItem(ItemA, NoKey, <<120>>, <<1>>),
     PricedItem(ItemA, NoKey, <<100>>, <<0>>),
     PricedItem(ItemA, NoKey, NoKey, NoKey),
     PricedItem(MkItem(SerialB2, Hsn9999, Absent), <<50>>, <<120>>, NoKey)}

\* The lines of the texts parse_bill is run on: a blank line, a table
\* header, a row with a code and a price, a name, a price, and a price
\* of zero.
BlankLine == <<>>

HeaderLine == Chars("Item  Rate")

CodePriceLine == Chars("AB12  Rs.50")

NameLine == Chars("TV set")

PriceLine == Chars("Rs.90")

ZeroPriceLine == Chars("HSN 8528 Rs.0")

LineCatalogue ==
    {BlankLine, HeaderLine, CodePriceLine, NameLine, PriceLine,
     ZeroPriceLine}

\* The entries of a provider item list
Entry(d) == JDict(d)

FullEntry ==
    Entry([item_name |-> JStr("TV"), hsn_code |-> JStr("8528"),
           quantity |-> JInt(2), price |-> JInt(100)])

PriceOnlyEntry == Entry([price |-> JFloat(5000)])

NameOnlyEntry == Entry([name |-> JStr("Fan")])

SerialAmountEntry ==
    Entry([sn |-> JStr("A1"), amount |-> JStr("₹1,200.50"),
           qty |-> JStr("1/2")])

HsnOnlyEntry ==
    Entry([hsn |-> JInt(8528), price |-> JStr("abc"),
           quantity |-> JStr("3 pcs")])

SerialOnlyEntry == Entry([serial |-> JStr("B2")])

LaterKeysEntry ==
    Entry([description |-> JStr(""), product |-> JStr("Lamp"),
           units |-> JFloat(50), value |-> JInt(0),
           taxable_value |-> JFloat(9999)])

InfiniteQuantityEntry ==
    Entry([item_name |-> JStr("TV"), quantity |-> JInf, price |-> JInt(10)])

\* A quantity above the range of a Record's quantity
LargeQuantityEntry ==
    Entry([item_name |-> JStr("TV"), quantity |-> JInt(100000),
           price |-> JInt(10)])

EmptyEntry == Entry([k \in {} |-> k])

\* An entry of the list that is no dict
TextEntry == JStr("note")

EntryCatalogue ==
    {FullEntry, PriceOnlyEntry, NameOnlyEntry, SerialAmountEntry,
     HsnOnlyEntry, SerialOnlyEntry, LaterKeysEntry, InfiniteQuantityEntry,
     LargeQuantityEntry, EmptyEntry, TextEntry}

MaxEntries == 2

\* The response texts: one that holds the JSON array value, one without
\* an array, one whose array json.loads rejects.  Code fence markers and
\* text around the array are cut away before json.loads and are left out.
ArrayResponse(value) == [kind |-> "array", value |-> value]

ProseResponse == [kind |-> "prose", value |-> <<>>]

BrokenResponse == [kind |-> "broken", value |-> <<>>]

\* The tokens of a table row: two codes, two numbers of 4 to 8 digits,
\* two short numbers, two names and a labelled price
TokenCatalogue ==
    {Chars("AB12"), Chars("CD34"), Chars("8528"), Chars("85281"),
     Chars("2"), Chars("3"), Chars("Widget"), Chars("Gadget"),
     Chars("Rs.50")}

MaxTokens == 2

\* The tokens from the n-th on, with two spaces between them
RECURSIVE JoinTokens(_, _)
JoinTokens(cells, n) ==
    IF n > Len(cells) THEN <<>>
    ELSE IF n = Len(cells) THEN cells[n]
    ELSE cells[n] \o <<" ", " ">> \o JoinTokens(cells, n + 1)

MaxLines == 3

BillTypes == {"purchase", "sale"}

\* Roles that are no bill type
BadRoles == {"refund"}

MaxPurchases == 2

MaxSales == 2

\* The lists over S of at most n elements
SeqsUpTo(S, n) == UNION {[1..k -> S] : k \in 0..n}

\* The rows of at most MaxTokens tokens
Rows ==
    {JoinTokens(cells, 1) :
        cells \in SeqsUpTo(TokenCatalogue, MaxTokens) \ {<<>>}}

\* database.py lines 69-72: the row create_default_admin inserts.  The
\* password hash and the timestamps are left out of the rows.
DefaultAdmin == [username |-> "admin", role |-> "admin", is_active |-> TRUE]

\* database.py lines 91-94: the row User.create inserts
UserRow(username, role) ==
    [username |-> username, role |-> role, is_active |-> TRUE]

\* app.py line 58: sessions = {}
NoSessions == [k \in {} |-> k]

\* The payload of a request without a bearer token, or with one that
\* decode_token turns down
NoToken == [user_id |-> 0, role |-> "none"]

\* No request has been served
NoResponse ==
    [route |-> "none", token |-> NoToken, session |-> 0, status |-> 0,
     body |-> [k \in {} |-> k]]

\* The usernames of the requests: two that pass the validation, one that
\* is too short, and the empty one
Usernames == {"admin", "bob", "al", ""}

\* The passwords of the requests: empty, too short, and accepted
Passwords == {"", "abc", "secret1"}

\* The role field of the requests; "" stands for a request without one
RoleInputs == {"admin", "user", "root", ""}

\* The ids of the admin requests: those of the rows and one of no row
UserIds == 1..3

\* The sessions the clients create
MaxSessions == 1

\* The longest list of items a session holds
MaxItems == 1

\* The session ids of the requests; 0 stands for a missing id or one
\* that generate_session_id never returned
SessionIds == 0..MaxSessions

\* The <bill_type> and item_type of the requests
TypeInputs == BillTypes \cup BadRoles

\* The file part of the uploads: None for a request without one, else
\* its filename, which is empty, has one of two extensions or has none
FileInputs ==
    {None, <<>>, Chars("bill.PDF"), Chars("bill.exe"), Chars("bill")}

\* The record the extraction finds on an uploaded bill, and the one the
\* client adds by hand
SessionItem(type) ==
    IF type = "purchase" THEN PricedItem(ItemA, <<100>>, NoKey, NoKey)
    ELSE PricedItem(ItemA, NoKey, <<120>>, NoKey)

\* The updates of the item update requests: a serial number, and a key
\* the route does not accept
UpdateInputs == {[serial_number |-> SerialB2], [quantity |-> 5]}

(* ------------------------------------------------------------------ *)
(* State                                                              *)
(* ------------------------------------------------------------------ *)

VARIABLES
    purchase_items,       \* the caller's list object, argument of match_items
    sale_items,           \* the caller's list object, argument of match_items
    remaining_sales,      \* the pool
    shares,               \* remaining_sales is the same list object as sale_items
    pc,                   \* "call", "loop", "done", "summarised"
    purchase_pos,         \* position of the for loop over purchase_items
    matched_items,
    unmatched_purchases,
    unmatched_sales,
    best_match_score,     \* the locals of the last loop iteration
    best_match_idx,
    in_purchases,         \* history: the arguments as they were at the call
    in_sales,
    pool_idx,             \* history: input position of each pool entry
    matched_pairs,        \* history: <<purchase position, sale position>> per commit
    unmatched_p_idx,      \* history: input positions of the unmatched purchases
    unmatched_s_idx,      \* history: input positions of the unmatched sales
    run,                  \* number of the current call
    first_call,           \* the first call's arguments and return value, once a second is made
    summary,              \* the value calculate_summary returned, None before the call
    lines,                \* parse_bill: text.split('\n')
    bill_type,            \* parse_bill: the role argument
    parse_pc,             \* "idle", "call", "table", "fallback", "returned"
    line_pos,             \* position of the for loop over lines
    header_found,
    items,                \* the list the running strategy appends to
    current_item,         \* the accumulator of the fallback strategy
    parsed,               \* the value parse_bill returned, None before
    run_first,            \* history: first line of the run being accumulated
    item_from,            \* history: strategy and lines of each entry of items
    fallback_steps,       \* history: lines the fallback loop has processed
    response_text,        \* _parse_json_items: the provider's response
    json_bill_type,       \* _parse_json_items: the bill_type argument
    json_pc,              \* "idle", "call", "loop", "returned"
    json_list,            \* parsed, the value of json.loads
    json_pos,             \* position of the for loop over parsed
    json_items,           \* items, the list _parse_json_items returns
    json_from,            \* history: position in parsed of each entry of items
    users,                \* database.py: the rows of the users table, row k has id k
    issued_tokens,        \* auth.py: the payloads of the tokens generate_token has issued
    sessions,             \* app.py line 58: the sessions dict
    session_count,        \* number of ids generate_session_id has returned
    response              \* the last request and the response it was given

matcher_vars ==
    <<purchase_items, sale_items, remaining_sales, shares, pc, purchase_pos,
      matched_items, unmatched_purchases, unmatched_sales, best_match_score,
      best_match_idx, in_purchases, in_sales, pool_idx, matched_pairs,
      unmatched_p_idx, unmatched_s_idx, run, first_call, summary>>

parser_vars ==
    <<lines, bill_type, parse_pc, line_pos, header_found, items,
      current_item, parsed, run_first, item_from, fallback_steps>>

provider_vars ==
    <<response_text, json_bill_type, json_pc, json_list, json_pos,
      json_items, json_from>>

app_vars == <<users, issued_tokens, sessions, session_count, response>>

vars == <<matcher_vars, parser_vars, provider_vars, app_vars>>

\* The application has served no request: init_db has created the
\* default administrator (database.py lines 48-50, 54-78), sessions = {}
AppIdle ==
    /\ users = <<DefaultAdmin>>
    /\ issued_tokens = {}
    /\ sessions = NoSessions
    /\ session_count = 0
    /\ response = NoResponse

\* _parse_json_items is not called
ProviderIdle ==
    /\ response_text = ProseResponse
    /\ json_bill_type = "purchase"
    /\ json_pc = "idle"
    /\ json_list = <<>>
    /\ json_pos = 1
    /\ json_items = <<>>
    /\ json_from = <<>>

\* parse_bill is not called
ParserIdle ==
    /\ lines = <<>>
    /\ bill_type = "purchase"
    /\ parse_pc = "idle"
    /\ line_pos = 1
    /\ header_found = FALSE
    /\ items = <<>>
    /\ current_item = <<>>
    /\ parsed = None
    /\ run_first = 1
    /\ item_from = <<>>
    /\ fallback_steps = 0

InitCall ==
    /\ remaining_sales = <<>>
    /\ shares = FALSE
    /\ pc = "call"
    /\ purchase_pos = 1
    /\ matched_items = <<>>
    /\ unmatched_purchases = <<>>
    /\ unmatched_sales = <<>>
    /\ best_match_score = 0
    /\ best_match_idx = 0
    /\ in_purchases = purchase_items
    /\ in_sales = sale_items
    /\ pool_idx = <<>>
    /\ matched_pairs = <<>>
    /\ unmatched_p_idx = <<>>
    /\ unmatched_s_idx = <<>>
    /\ run = 1
    /\ first_call = None
    /\ summary = None

Init ==
    /\ purchase_items \in SeqsUpTo(Catalogue, MaxPurchases)
    /\ sale_items \in SeqsUpTo(Catalogue, MaxSales)
    /\ InitCall
    /\ AppIdle
    /\ ParserIdle
    /\ ProviderIdle

\* The lists of priced records
InitPriced ==
    /\ purchase_items \in SeqsUpTo(PurchaseCatalogue, MaxPurchases)
    /\ sale_items \in SeqsUpTo(SaleCatalogue, MaxSales)
    /\ InitCall
    /\ AppIdle
    /\ ParserIdle
    /\ ProviderIdle

\* match_items([p], [s]) for every pair of records
InitPair ==
    /\ purchase_items \in {<<p>> : p \in AllItems}
    /\ sale_items \in {<<s>> : s \in AllItems}
    /\ InitCall
    /\ AppIdle
    /\ ParserIdle
    /\ ProviderIdle

(* ------------------------------------------------------------------ *)
(* ItemMatcher.match_items                                            *)
(* ------------------------------------------------------------------ *)

\* remaining_sales = sale_items: the pool is the caller's list
AssignShares == TRUE

\* list.copy() returns a new list object
CopyShares == FALSE

\* The pop left out
ListKeep(list, idx) == list

\* del list[idx:] in place of list.pop(idx)
ListTruncate(list, idx) == SubSeq(list, 1, idx - 1)

\* list.pop(idx), as the list that is left
ListPop(list, idx) ==
    SubSeq(list, 1, idx - 1) \o SubSeq(list, idx + 1, Len(list))

\* if score >= best_match_score
BetterOrEqual(score, best) == score >= best

\* if score > best_match_score
Better(score, best) == score > best

MatchThreshold == 70

\* if best_match_score > 0.7
MeetsThresholdStrict(score) == score > MatchThreshold

\* if best_match_score >= 0.7
MeetsThreshold(score) == score >= MatchThreshold

\* The inner loop: for idx, sale_item in enumerate(remaining_sales)
RECURSIVE ScanSales(_, _, _, _)
ScanSales(purchase_item, pool, idx, best) ==
    IF idx > Len(pool) THEN best
    ELSE LET score == calculate_match_score(purchase_item, pool[idx])
         IN  ScanSales(purchase_item, pool, idx + 1,
                       IF Better(score, best.score)
                       THEN [score |-> score, idx |-> idx]
                       ELSE best)

BestMatch(purchase_item, pool) ==
    ScanSales(purchase_item, pool, 1, [score |-> 0, idx |-> 0])

\* The result lists kept on the instance and not emptied at the call
MatchItemsBeginStale ==
    /\ pc = "call"
    /\ pc' = "loop"
    /\ purchase_pos' = 1
    /\ remaining_sales' = sale_items
    /\ shares' = CopyShares
    /\ best_match_score' = 0
    /\ best_match_idx' = 0
    /\ in_purchases' = purchase_items
    /\ in_sales' = sale_items
    /\ pool_idx' = [k \in 1..Len(sale_items) |-> k]
    /\ matched_pairs' = <<>>
    /\ unmatched_p_idx' = <<>>
    /\ unmatched_s_idx' = <<>>
    /\ UNCHANGED <<purchase_items, sale_items, matched_items,
                   unmatched_purchases, unmatched_sales, run, first_call,
                   summary>>
    /\ UNCHANGED <<parser_vars, provider_vars, app_vars>>

\* Lines 15-20: the empty result lists and the pool.
MatchItemsBegin ==
    /\ pc = "call"
    /\ pc' = "loop"
    /\ purchase_pos' = 1
    /\ matched_items' = <<>>
    /\ unmatched_purchases' = <<>>
    /\ unmatched_sales' = <<>>
    /\ remaining_sales' = sale_items
    /\ shares' = CopyShares
    /\ best_match_score' = 0
    /\ best_match_idx' = 0
    /\ in_purchases' = purchase_items
    /\ in_sales' = sale_items
    /\ pool_idx' = [k \in 1..Len(sale_items) |-> k]
    /\ matched_pairs' = <<>>
    /\ unmatched_p_idx' = <<>>
    /\ unmatched_s_idx' = <<>>
    /\ UNCHANGED <<purchase_items, sale_items, run, first_call,
                   summary>>
    /\ UNCHANGED <<parser_vars, provider_vars, app_vars>>

\* One iteration of the loop over purchase_items that commits a match.
CommitMatch ==
    /\ pc = "loop"
    /\ purchase_pos <= Len(purchase_items)
    /\ LET purchase_item == purchase_items[purchase_pos]
           best == BestMatch(purchase_item, remaining_sales)
       IN  /\ MeetsThreshold(best.score)
           /\ best_match_score' = best.score
           /\ best_match_idx' = best.idx
           /\ matched_items' =
                  Append(matched_items,
                         create_matched_item(purchase_item,
                                             remaining_sales[best.idx]))
           /\ remaining_sales' = ListPop(remaining_sales, best.idx)
           /\ sale_items' = IF shares THEN remaining_sales' ELSE sale_items
           /\ pool_idx' = ListPop(pool_idx, best.idx)
           /\ matched_pairs' =
                  Append(matched_pairs, <<purchase_pos, pool_idx[best.idx]>>)
    /\ purchase_pos' = purchase_pos + 1
    /\ UNCHANGED <<purchase_items, shares, pc, unmatched_purchases,
                   unmatched_sales, in_purchases, in_sales, unmatched_p_idx,
                   unmatched_s_idx, run, first_call,
                   summary>>
    /\ UNCHANGED <<parser_vars, provider_vars, app_vars>>

\* One iteration of the loop over purchase_items that finds no match.
AddUnmatchedPurchase ==
    /\ pc = "loop"
    /\ purchase_pos <= Len(purchase_items)
    /\ LET purchase_item == purchase_items[purchase_pos]
           best == BestMatch(purchase_item, remaining_sales)
       IN  /\ ~MeetsThreshold(best.score)
           /\ best_match_score' = best.score
           /\ best_match_idx' = best.idx
           /\ unmatched_purchases' =
                  Append(unmatched_purchases,
                         create_unmatched_item(purchase_item, "purchase"))
    /\ unmatched_p_idx' = Append(unmatched_p_idx, purchase_pos)
    /\ purchase_pos' = purchase_pos + 1
    /\ UNCHANGED <<purchase_items, sale_items, remaining_sales, shares, pc,
                   matched_items, unmatched_sales, in_purchases, in_sales,
                   pool_idx, matched_pairs, unmatched_s_idx, run, first_call,
                   summary>>
    /\ UNCHANGED <<parser_vars, provider_vars, app_vars>>

\* The remaining sales taken last to first
CollectUnmatchedSalesReversed ==
    /\ pc = "loop"
    /\ purchase_pos > Len(purchase_items)
    /\ unmatched_sales' =
           [k \in 1..Len(remaining_sales) |->
               create_unmatched_item(
                   remaining_sales[Len(remaining_sales) + 1 - k], "sale")]
    /\ unmatched_s_idx' =
           [k \in 1..Len(pool_idx) |-> pool_idx[Len(pool_idx) + 1 - k]]
    /\ pc' = "done"
    /\ UNCHANGED <<purchase_items, sale_items, remaining_sales, shares,
                   purchase_pos, matched_items, unmatched_purchases,
                   best_match_score, best_match_idx, in_purchases, in_sales,
                   pool_idx, matched_pairs, unmatched_p_idx, run, first_call,
                   summary>>
    /\ UNCHANGED <<parser_vars, provider_vars, app_vars>>

\* Lines 47-56: the remaining sales are unmatched; return.
CollectUnmatchedSales ==
    /\ pc = "loop"
    /\ purchase_pos > Len(purchase_items)
    /\ unmatched_sales' =
           [k \in 1..Len(remaining_sales) |->
               create_unmatched_item(remaining_sales[k], "sale")]
    /\ unmatched_s_idx' = pool_idx
    /\ pc' = "done"
    /\ UNCHANGED <<purchase_items, sale_items, remaining_sales, shares,
                   purchase_pos, matched_items, unmatched_purchases,
                   best_match_score, best_match_idx, in_purchases, in_sales,
                   pool_idx, matched_pairs, unmatched_p_idx, run, first_call,
                   summary>>
    /\ UNCHANGED <<parser_vars, provider_vars, app_vars>>

\* The value match_items returns
Result ==
    [matched |-> matched_items,
     unmatched_purchases |-> unmatched_purchases,
     unmatched_sales |-> unmatched_sales]

\* The caller calls match_items a second time with the same two list objects.
CallAgain ==
    /\ pc = "done"
    /\ run = 1
    /\ run' = 2
    /\ first_call' =
           [purchase_items |-> in_purchases,
            sale_items |-> in_sales,
            result |-> Result]
    /\ pc' = "call"
    /\ UNCHANGED <<purchase_items, sale_items, remaining_sales, shares,
                   purchase_pos, matched_items, unmatched_purchases,
                   unmatched_sales, best_match_score, best_match_idx,
                   in_purchases, in_sales, pool_idx, matched_pairs,
                   unmatched_p_idx, unmatched_s_idx, summary>>
    /\ UNCHANGED <<parser_vars, provider_vars, app_vars>>

\* app.py line 394: the summary of the result match_items returned.
CalculateSummary ==
    /\ pc = "done"
    /\ summary' = calculate_summary(Result)
    /\ pc' = "summarised"
    /\ UNCHANGED <<purchase_items, sale_items, remaining_sales, shares,
                   purchase_pos, matched_items, unmatched_purchases,
                   unmatched_sales, best_match_score, best_match_idx,
                   in_purchases, in_sales, pool_idx, matched_pairs,
                   unmatched_p_idx, unmatched_s_idx, run, first_call>>
    /\ UNCHANGED <<parser_vars, provider_vars, app_vars>>

(* ------------------------------------------------------------------ *)
(* BillProcessor.parse_bill                                           *)
(* ------------------------------------------------------------------ *)

\* parse_bill(text, bill_type) for the texts of texts and the roles of types
InitParseOn(texts, types) ==
    /\ purchase_items = <<>>
    /\ sale_items = <<>>
    /\ InitCall
    /\ AppIdle
    /\ ProviderIdle
    /\ lines \in texts
    /\ bill_type \in types
    /\ parse_pc = "call"
    /\ line_pos = 1
    /\ header_found = FALSE
    /\ items = <<>>
    /\ current_item = EmptyItem
    /\ parsed = None
    /\ run_first = 1
    /\ item_from = <<>>
    /\ fallback_steps = 0

\* The texts of at most MaxLines lines
InitParseOf(types) ==
    InitParseOn(SeqsUpTo(LineCatalogue, MaxLines) \ {<<>>}, types)

InitParse == InitParseOf(BillTypes)

\* The line the loop is at, stripped
Line == Strip(lines[line_pos])

\* table_items returned whatever it holds
ReturnsTableAlways(table_items) == TRUE

\* if table_items
ReturnsTable(table_items) == table_items # <<>>

\* The accumulator kept at a blank line
KeptItem(item) == item

\* current_item = {}
ClearedItem(item) == EmptyItem

\* The key test left out: a later value replaces the stored one
SetAlways(item, key, value) == PutIf(Truthy(value), item, key, value)

\* if value and key not in current_item: current_item[key] = value
SetMissing(item, key, value) ==
    PutIf(Truthy(value) /\ key \notin DOMAIN item, item, key, value)

\* The same for a number an extractor returned
SetMissingNumber(item, key, number) ==
    IF TruthyNumber(number) /\ key \notin DOMAIN item
    THEN Put(item, key, number[1])
    ELSE item

\* Lines 57-81: the fields of one line added to the accumulator
FallbackUpdate(item, line, type) ==
    SetMissingNumber(
        SetMissingNumber(
            SetMissing(
                SetMissing(
                    SetMissing(item, "serial_number",
                               extract_serial_number(line)),
                    "hsn_code", extract_hsn_code(line)),
                "item_name", extract_item_name(line)),
            "quantity", extract_quantity(line)),
        type \o "_price", extract_price(line))

\* Lines 36-40: the call of _parse_table_format.
ParseBillBegin ==
    /\ parse_pc = "call"
    /\ parse_pc' = "table"
    /\ line_pos' = 1
    /\ header_found' = FALSE
    /\ items' = <<>>
    /\ item_from' = <<>>
    /\ UNCHANGED <<lines, bill_type, current_item, parsed, run_first,
                   fallback_steps>>
    /\ UNCHANGED <<matcher_vars, provider_vars, app_vars>>

\* _parse_table_format: a blank line, or a line before the header that is
\* no header.
TableSkipLine ==
    /\ parse_pc = "table"
    /\ line_pos <= Len(lines)
    /\ \/ Line = <<>>
       \/ ~header_found /\ ~IsHeaderLine(Line)
    /\ line_pos' = line_pos + 1
    /\ UNCHANGED <<lines, bill_type, parse_pc, header_found, items,
                   current_item, parsed, run_first, item_from,
                   fallback_steps>>
    /\ UNCHANGED <<matcher_vars, provider_vars, app_vars>>

\* _parse_table_format: the header row.
TableHeader ==
    /\ parse_pc = "table"
    /\ line_pos <= Len(lines)
    /\ Line # <<>>
    /\ ~header_found
    /\ IsHeaderLine(Line)
    /\ header_found' = TRUE
    /\ line_pos' = line_pos + 1
    /\ UNCHANGED <<lines, bill_type, parse_pc, items, current_item, parsed,
                   run_first, item_from, fallback_steps>>
    /\ UNCHANGED <<matcher_vars, provider_vars, app_vars>>

\* _parse_table_format: a data row.
TableRow ==
    /\ parse_pc = "table"
    /\ line_pos <= Len(lines)
    /\ Line # <<>>
    /\ header_found
    /\ LET item == parse_table_row(Line, bill_type)
       IN  IF item # EmptyItem /\ is_valid_item(item)
           THEN /\ items' = Append(items, item)
                /\ item_from' =
                       Append(item_from,
                              [strategy |-> "table", first |-> line_pos,
                               last |-> line_pos])
           ELSE UNCHANGED <<items, item_from>>
    /\ line_pos' = line_pos + 1
    /\ UNCHANGED <<lines, bill_type, parse_pc, header_found, current_item,
                   parsed, run_first, fallback_steps>>
    /\ UNCHANGED <<matcher_vars, provider_vars, app_vars>>

\* Lines 40-42: the table items are returned.
TableReturn ==
    /\ parse_pc = "table"
    /\ line_pos > Len(lines)
    /\ ReturnsTable(items)
    /\ parsed' = items
    /\ parse_pc' = "returned"
    /\ UNCHANGED <<lines, bill_type, line_pos, header_found, items,
                   current_item, run_first, item_from, fallback_steps>>
    /\ UNCHANGED <<matcher_vars, provider_vars, app_vars>>

\* Lines 44-47: no table item; the line-by-line loop starts.
FallbackBegin ==
    /\ parse_pc = "table"
    /\ line_pos > Len(lines)
    /\ ~ReturnsTable(items)
    /\ parse_pc' = "fallback"
    /\ line_pos' = 1
    /\ items' = <<>>
    /\ item_from' = <<>>
    /\ current_item' = EmptyItem
    /\ run_first' = 1
    /\ UNCHANGED <<lines, bill_type, header_found, parsed, fallback_steps>>
    /\ UNCHANGED <<matcher_vars, provider_vars, app_vars>>

\* Lines 49-55: a blank line.
FallbackBlank ==
    /\ parse_pc = "fallback"
    /\ line_pos <= Len(lines)
    /\ Line = <<>>
    /\ IF current_item # EmptyItem
       THEN /\ IF is_valid_item(current_item)
               THEN /\ items' = Append(items, current_item)
                    /\ item_from' =
                           Append(item_from,
                                  [strategy |-> "fallback",
                                   first |-> run_first,
                                   last |-> line_pos - 1])
               ELSE UNCHANGED <<items, item_from>>
            /\ current_item' = ClearedItem(current_item)
       ELSE UNCHANGED <<items, item_from, current_item>>
    /\ run_first' = line_pos + 1
    /\ line_pos' = line_pos + 1
    /\ fallback_steps' = fallback_steps + 1
    /\ UNCHANGED <<lines, bill_type, parse_pc, header_found, parsed>>
    /\ UNCHANGED <<matcher_vars, provider_vars, app_vars>>

\* Lines 57-81: a line that is not blank.
FallbackLine ==
    /\ parse_pc = "fallback"
    /\ line_pos <= Len(lines)
    /\ Line # <<>>
    /\ current_item' = FallbackUpdate(current_item, Line, bill_type)
    /\ line_pos' = line_pos + 1
    /\ fallback_steps' = fallback_steps + 1
    /\ UNCHANGED <<lines, bill_type, parse_pc, header_found, items, parsed,
                   run_first, item_from>>
    /\ UNCHANGED <<matcher_vars, provider_vars, app_vars>>

\* Lines 83-87: the last item, and the return.
FallbackReturn ==
    /\ parse_pc = "fallback"
    /\ line_pos > Len(lines)
    /\ IF current_item # EmptyItem /\ is_valid_item(current_item)
       THEN /\ items' = Append(items, current_item)
            /\ item_from' =
                   Append(item_from,
                          [strategy |-> "fallback", first |-> run_first,
                           last |-> Len(lines)])
       ELSE UNCHANGED <<items, item_from>>
    /\ parsed' = items'
    /\ parse_pc' = "returned"
    /\ UNCHANGED <<lines, bill_type, line_pos, header_found, current_item,
                   run_first, fallback_steps>>
    /\ UNCHANGED <<matcher_vars, provider_vars, app_vars>>

NextParse ==
    \/ ParseBillBegin
    \/ TableSkipLine
    \/ TableHeader
    \/ TableRow
    \/ TableReturn
    \/ FallbackBegin
    \/ FallbackBlank
    \/ FallbackLine
    \/ FallbackReturn

SpecParse == InitParse /\ [][NextParse]_vars

\* parse_bill on a blank line, a header and one row of the tokens
InitRow == InitParseOn({<<BlankLine, HeaderLine, row>> : row \in Rows}, BillTypes)

SpecRow == InitRow /\ [][NextParse]_vars

Next ==
    \/ MatchItemsBegin
    \/ CommitMatch
    \/ AddUnmatchedPurchase
    \/ CollectUnmatchedSales

NextTwice ==
    \/ Next
    \/ CallAgain

Spec == Init /\ [][Next]_vars

SpecPair == InitPair /\ [][Next]_vars

SpecTwice == Init /\ [][NextTwice]_vars

NextPriced ==
    \/ Next
    \/ CalculateSummary

SpecPriced == InitPriced /\ [][NextPriced]_vars

(* ------------------------------------------------------------------ *)
(* NvidiaNIMService._parse_json_items                                 *)
(* ------------------------------------------------------------------ *)

\* _parse_json_items(response_text, bill_type) for the item lists of at
\* most MaxEntries entries and the roles of types
InitProviderOf(types) ==
    /\ purchase_items = <<>>
    /\ sale_items = <<>>
    /\ InitCall
    /\ AppIdle
    /\ ParserIdle
    /\ response_text \in
           {ArrayResponse(value) : value \in SeqsUpTo(EntryCatalogue, MaxEntries)}
           \cup {ProseResponse, BrokenResponse}
    /\ json_bill_type \in types
    /\ json_pc = "call"
    /\ json_list = <<>>
    /\ json_pos = 1
    /\ json_items = <<>>
    /\ json_from = <<>>

InitProvider == InitProviderOf(BillTypes)

\* re.search finds no array: the warning is printed
JsonNoArray ==
    /\ json_pc = "call"
    /\ response_text.kind = "prose"
    /\ json_pc' = "returned"
    /\ UNCHANGED <<response_text, json_bill_type, json_list, json_pos,
                   json_items, json_from>>
    /\ UNCHANGED <<matcher_vars, parser_vars, app_vars>>

\* json.loads raises JSONDecodeError
JsonDecodeError ==
    /\ json_pc = "call"
    /\ response_text.kind = "broken"
    /\ json_pc' = "returned"
    /\ UNCHANGED <<response_text, json_bill_type, json_list, json_pos,
                   json_items, json_from>>
    /\ UNCHANGED <<matcher_vars, parser_vars, app_vars>>

\* parsed = json.loads(json_str)
JsonLoads ==
    /\ json_pc = "call"
    /\ response_text.kind = "array"
    /\ json_list' = response_text.value
    /\ json_pc' = "loop"
    /\ UNCHANGED <<response_text, json_bill_type, json_pos, json_items,
                   json_from>>
    /\ UNCHANGED <<matcher_vars, parser_vars, app_vars>>

\* items after the loop body has run on the dict item
AppendIfKept(normalized) ==
    IF Keeps(normalized, json_bill_type \o "_price")
    THEN /\ json_items' = Append(json_items, normalized)
         /\ json_from' = Append(json_from, json_pos)
    ELSE UNCHANGED <<json_items, json_from>>

\* One iteration of the loop over parsed
JsonEntry ==
    /\ json_pc = "loop"
    /\ json_pos <= Len(json_list)
    /\ IF json_list[json_pos].t = "dict"
       THEN /\ Normalized(json_list[json_pos], json_bill_type) # Raised
            /\ AppendIfKept(Normalized(json_list[json_pos], json_bill_type))
       ELSE UNCHANGED <<json_items, json_from>>
    /\ json_pos' = json_pos + 1
    /\ UNCHANGED <<response_text, json_bill_type, json_pc, json_list>>
    /\ UNCHANGED <<matcher_vars, parser_vars, app_vars>>

\* The iteration raises: except Exception, then return items
JsonEntryRaises ==
    /\ json_pc = "loop"
    /\ json_pos <= Len(json_list)
    /\ json_list[json_pos].t = "dict"
    /\ Normalized(json_list[json_pos], json_bill_type) = Raised
    /\ json_pc' = "returned"
    /\ UNCHANGED <<response_text, json_bill_type, json_list, json_pos,
                   json_items, json_from>>
    /\ UNCHANGED <<matcher_vars, parser_vars, app_vars>>

\* return items
JsonReturn ==
    /\ json_pc = "loop"
    /\ json_pos > Len(json_list)
    /\ json_pc' = "returned"
    /\ UNCHANGED <<response_text, json_bill_type, json_list, json_pos,
                   json_items, json_from>>
    /\ UNCHANGED <<matcher_vars, parser_vars, app_vars>>

NextProvider ==
    \/ JsonNoArray
    \/ JsonDecodeError
    \/ JsonLoads
    \/ JsonEntry
    \/ JsonEntryRaises
    \/ JsonReturn

SpecProvider == InitProvider /\ [][NextProvider]_vars

\* A call of either extractor with a bill type or with another role
InitAnyRole ==
    \/ InitParseOf(BillTypes \cup BadRoles)
    \/ InitProviderOf(BillTypes \cup BadRoles)

NextExtract == NextParse \/ NextProvider

SpecAnyRole == InitAnyRole /\ [][NextExtract]_vars

(* ------------------------------------------------------------------ *)
(* auth.py and the admin routes of app.py                             *)
(*                                                                    *)
(* A request is served in one step.  A token is the payload           *)
(* generate_token signed, without the username and the two dates; the *)
(* requests are made before the tokens expire.                        *)
(* ------------------------------------------------------------------ *)

\* User.get_by_id(user_id) returns a row: WHERE id = ? AND is_active = 1
IsActive(user_id) == user_id \in DOMAIN users /\ users[user_id].is_active

\* username TEXT UNIQUE: a row other than row except holds the username
UsernameTaken(username, except) ==
    \E k \in DOMAIN users \ {except} : users[k].username = username

\* A response with the request it answers: the route, the token and the
\* session id of the request (0 when the request names no session)
Respond(route, token, status, body) ==
    [route |-> route, token |-> token, session |-> 0, status |-> status,
     body |-> body]

\* jsonify({'error': message}), status
Error(route, token, status, message) ==
    Respond(route, token, status, [error |-> message])

\* The decorator calls the route
Passes == [status |-> 0, error |-> ""]

\* The decorator with the role read from the users table
AdminRequiredStored(token) ==
    IF token = NoToken
    THEN [status |-> 401, error |-> "Authentication required"]
    ELSE IF ~IsActive(token.user_id)
    THEN [status |-> 401, error |-> "User not found"]
    ELSE IF users[token.user_id].role # "admin"
    THEN [status |-> 403, error |-> "Admin access required"]
    ELSE Passes

\* admin_required, lines 104-119
AdminRequired(token) ==
    IF token = NoToken
    THEN [status |-> 401, error |-> "Authentication required"]
    ELSE IF token.role # "admin"
    THEN [status |-> 403, error |-> "Admin access required"]
    ELSE IF ~IsActive(token.user_id)
    THEN [status |-> 401, error |-> "User not found"]
    ELSE Passes

\* login_required, lines 66-77
LoginRequired(token) ==
    IF token = NoToken
    THEN [status |-> 401, error |-> "Authentication required"]
    ELSE IF ~IsActive(token.user_id)
    THEN [status |-> 401, error |-> "User not found"]
    ELSE Passes

\* The tokens a request can carry
Callers == issued_tokens \cup {NoToken}

\* The response of a decorator that turns the request down, or answer
Guarded(route, token, decorated, answer) ==
    IF decorated # Passes
    THEN Error(route, token, decorated.status, decorated.error)
    ELSE answer

\* generate_token(user['id'], user['username'], user['role'])
generate_token(user_id, role) == [user_id |-> user_id, role |-> role]

\* User.get_all(): the active rows
get_all == [k \in {id \in DOMAIN users : users[id].is_active} |-> users[k]]

\* POST /api/auth/login and AuthService.login; matches tells whether
\* bcrypt.checkpw accepts the password.
Login ==
    \E username \in Usernames, password \in Passwords, matches \in BOOLEAN :
        LET found == {k \in DOMAIN users :
                         users[k].username = username /\ users[k].is_active}
            id == CHOOSE k \in found : TRUE
            token == generate_token(id, users[id].role)
        IN  /\ IF username = "" \/ password = ""
               THEN /\ response' = Error("login", NoToken, 400,
                                         "Username and password are required")
                    /\ UNCHANGED issued_tokens
               ELSE IF found = {} \/ ~matches
               THEN /\ response' = Error("login", NoToken, 401,
                                         "Invalid username or password")
                    /\ UNCHANGED issued_tokens
               ELSE /\ response' = Respond("login", NoToken, 200,
                                           [token |-> token])
                    /\ issued_tokens' = issued_tokens \cup {token}
            /\ UNCHANGED <<users, sessions, session_count>>
            /\ UNCHANGED <<matcher_vars, parser_vars, provider_vars>>

\* GET /api/admin/users
ListUsers ==
    \E token \in Callers :
        /\ response' = Guarded("list_users", token, AdminRequired(token),
                               Respond("list_users", token, 200,
                                       [users |-> get_all]))
        /\ UNCHANGED <<users, issued_tokens, sessions, session_count>>
        /\ UNCHANGED <<matcher_vars, parser_vars, provider_vars>>

\* create_user, lines 157-179: the response and the rows it leaves
CreateUserOutcome(token, username, password, role) ==
    LET refuse(message) ==
            [response |-> Error("create_user", token, 400, message),
             users |-> users]
    IN  IF username = "" THEN refuse("Username is required")
        ELSE IF Len(username) < 3
        THEN refuse("Username must be at least 3 characters")
        ELSE IF password = "" THEN refuse("Password is required")
        ELSE IF Len(password) < 6
        THEN refuse("Password must be at least 6 characters")
        ELSE IF role \notin {"admin", "user"}
        THEN refuse("Role must be admin or user")
        ELSE IF UsernameTaken(username, 0)
        THEN refuse("Username already exists")
        ELSE [response |->
                  Respond("create_user", token, 201,
                          [user |-> [id |-> Len(users) + 1,
                                     username |-> username,
                                     role |-> role]]),
              users |-> Append(users, UserRow(username, role))]

\* POST /api/admin/users; a request without a role asks for 'user'
CreateUser ==
    \E token \in Callers, username \in Usernames, password \in Passwords,
       role \in RoleInputs \ {""} :
        LET outcome == CreateUserOutcome(token, username, password, role)
            decorated == AdminRequired(token)
        IN  /\ response' = Guarded("create_user", token, decorated,
                                   outcome.response)
            /\ users' = IF decorated = Passes THEN outcome.users ELSE users
            /\ UNCHANGED <<issued_tokens, sessions, session_count>>
            /\ UNCHANGED <<matcher_vars, parser_vars, provider_vars>>

\* User.update(user_id, username, password, role), lines 166-184: the
\* row with the values that are not None
UpdatedRow(row, username, role) ==
    [row EXCEPT !.username = IF username # "" THEN username ELSE @,
                !.role = IF role # "" THEN role ELSE @]

\* update_user, lines 190-224: the response and the rows it leaves
UpdateUserOutcome(token, user_id, username, password, role) ==
    LET refuse(status, message) ==
            [response |-> Error("update_user", token, status, message),
             users |-> users]
        updated == [users EXCEPT
                        ![user_id] = UpdatedRow(@, username, role)]
    IN  IF ~IsActive(user_id) THEN refuse(404, "User not found")
        ELSE IF username # "" /\ Len(username) < 3
        THEN refuse(400, "Username must be at least 3 characters")
        ELSE IF password # "" /\ Len(password) < 6
        THEN refuse(400, "Password must be at least 6 characters")
        ELSE IF role # "" /\ role \notin {"admin", "user"}
        THEN refuse(400, "Role must be admin or user")
        ELSE IF user_id = token.user_id /\ role = "user"
        THEN refuse(400, "You cannot demote yourself from admin")
        ELSE IF username # "" /\ UsernameTaken(username, user_id)
        THEN refuse(400, "Username already exists")
        ELSE [response |->
                  Respond("update_user", token, 200,
                          [user |-> [id |-> user_id,
                                     username |-> updated[user_id].username,
                                     role |-> updated[user_id].role]]),
              users |-> updated]

\* PUT /api/admin/users/<user_id>
UpdateUser ==
    \E token \in Callers, user_id \in UserIds, username \in Usernames,
       password \in Passwords, role \in RoleInputs :
        LET outcome == UpdateUserOutcome(token, user_id, username, password,
                                         role)
            decorated == AdminRequired(token)
        IN  /\ response' = Guarded("update_user", token, decorated,
                                   outcome.response)
            /\ users' = IF decorated = Passes THEN outcome.users ELSE users
            /\ UNCHANGED <<issued_tokens, sessions, session_count>>
            /\ UNCHANGED <<matcher_vars, parser_vars, provider_vars>>

\* delete_user, lines 231-243, and User.delete: the response and the rows
DeleteUserOutcome(token, user_id) ==
    IF user_id = token.user_id
    THEN [response |-> Error("delete_user", token, 400,
                             "You cannot delete your own account"),
          users |-> users]
    ELSE IF ~IsActive(user_id)
    THEN [response |-> Error("delete_user", token, 404, "User not found"),
          users |-> users]
    ELSE [response |-> Respond("delete_user", token, 200,
                               [message |-> "User deleted successfully"]),
          users |-> [users EXCEPT ![user_id].is_active = FALSE]]

\* DELETE /api/admin/users/<user_id>
DeleteUser ==
    \E token \in Callers, user_id \in UserIds :
        LET outcome == DeleteUserOutcome(token, user_id)
            decorated == AdminRequired(token)
        IN  /\ response' = Guarded("delete_user", token, decorated,
                                   outcome.response)
            /\ users' = IF decorated = Passes THEN outcome.users ELSE users
            /\ UNCHANGED <<issued_tokens, sessions, session_count>>
            /\ UNCHANGED <<matcher_vars, parser_vars, provider_vars>>

NextAdmin ==
    \/ Login
    \/ ListUsers
    \/ CreateUser
    \/ UpdateUser
    \/ DeleteUser

\* The application after start-up, the processing classes not called
InitApp ==
    /\ purchase_items = <<>>
    /\ sale_items = <<>>
    /\ InitCall
    /\ AppIdle
    /\ ParserIdle
    /\ ProviderIdle

\* The login and admin requests, from the default administrator on
SpecAdmin == InitApp /\ [][NextAdmin]_vars

(* ------------------------------------------------------------------ *)
(* The session routes of app.py                                       *)
(*                                                                    *)
(* A session is the dict of lines 254-261 without the two lists of    *)
(* file names; a request is served in one step.  Item positions are   *)
(* the request's item_index plus one.                                 *)
(* ------------------------------------------------------------------ *)

\* ItemMatcher.match_items as a function of its arguments: the loop over
\* purchase_items, then the remaining sales
RECURSIVE MatchLoop(_, _, _, _)
MatchLoop(purchases, pool, matched, unmatched) ==
    IF purchases = <<>>
    THEN [matched |-> matched,
          unmatched_purchases |-> unmatched,
          unmatched_sales |->
              [k \in 1..Len(pool) |-> create_unmatched_item(pool[k], "sale")]]
    ELSE LET purchase_item == Head(purchases)
             best == BestMatch(purchase_item, pool)
         IN  IF MeetsThreshold(best.score)
             THEN MatchLoop(Tail(purchases), ListPop(pool, best.idx),
                            Append(matched,
                                   create_matched_item(purchase_item,
                                                       pool[best.idx])),
                            unmatched)
             ELSE MatchLoop(Tail(purchases), pool, matched,
                            Append(unmatched,
                                   create_unmatched_item(purchase_item,
                                                         "purchase")))

match_items(purchases, sales) == MatchLoop(purchases, sales, <<>>, <<>>)

\* create_session, lines 254-261
NewSession(user_id) ==
    [user_id |-> user_id, purchase_items |-> <<>>, sale_items |-> <<>>,
     status |-> "created"]

\* Every session belongs to the caller
OwnsAny(token, session_id) == TRUE

\* sessions[session_id].get('user_id') != current_user['id'], negated
Owns(token, session_id) == sessions[session_id].user_id = token.user_id

\* The response with the session id of its request
About(session_id, answer) == [answer EXCEPT !.session = session_id]

\* The request is turned down and the store left as it is
Refuse(route, token, session_id, status, message) ==
    [response |-> About(session_id, Error(route, token, status, message)),
     sessions |-> sessions]

\* The response and the store a request leaves when login_required
\* turns it down, or the route's outcome
Served(route, token, session_id, outcome) ==
    LET decorated == LoginRequired(token)
    IN  IF decorated # Passes
        THEN Refuse(route, token, session_id, decorated.status,
                    decorated.error)
        ELSE outcome

\* A session route: the response and the store of its outcome
Serve(outcome) ==
    /\ response' = outcome.response
    /\ sessions' = outcome.sessions
    /\ UNCHANGED <<users, issued_tokens, session_count>>
    /\ UNCHANGED <<matcher_vars, parser_vars, provider_vars>>

\* POST /api/session/create; the id is the next of generate_session_id
CreateSession ==
    /\ session_count < MaxSessions
    /\ \E token \in Callers :
        LET decorated == LoginRequired(token)
            id == session_count + 1
        IN  IF decorated # Passes
            THEN /\ response' = Error("create_session", token,
                                      decorated.status, decorated.error)
                 /\ UNCHANGED <<sessions, session_count>>
            ELSE /\ response' =
                        Respond("create_session", token, 200,
                                [session_id |-> id, status |-> "created"])
                 /\ sessions' = Put(sessions, id, NewSession(token.user_id))
                 /\ session_count' = id
    /\ UNCHANGED <<users, issued_tokens>>
    /\ UNCHANGED <<matcher_vars, parser_vars, provider_vars>>

ALLOWED_EXTENSIONS == {Chars("png"), Chars("jpg"), Chars("jpeg"), Chars("pdf")}

\* allowed_file(filename), line 63
allowed_file(filename) ==
    LET dots == {i \in DOMAIN filename : filename[i] = "."}
        last == CHOOSE i \in dots : \A j \in dots : j <= i
    IN  /\ dots # {}
        /\ LowerStr(SubSeq(filename, last + 1, Len(filename)))
               \in ALLOWED_EXTENSIONS

\* The session with the extracted items appended, lines 304-311
Uploaded(session, type, extracted_items) ==
    LET items_key == type \o "_items"
    IN  Put(Put(session, items_key, session[items_key] \o extracted_items),
            "status", "processing")

\* upload_bill, lines 272-324; raises tells whether process_bill_file
\* raises.
UploadOutcome(token, type, session_id, filename, raises, extracted_items) ==
    LET refuse(status, message) ==
            Refuse("upload_bill", token, session_id, status, message)
    IN  IF type \notin {"purchase", "sale"}
        THEN refuse(400, "Invalid bill type")
        ELSE IF session_id \notin DOMAIN sessions
        THEN refuse(400, "Invalid or missing session_id")
        ELSE IF ~Owns(token, session_id)
        THEN refuse(404, "Session not found")
        ELSE IF filename = None THEN refuse(400, "No file provided")
        ELSE IF filename = <<>> THEN refuse(400, "No file selected")
        ELSE IF ~allowed_file(filename) THEN refuse(400, "Invalid file type")
        ELSE IF raises THEN refuse(500, "Error processing file")
        ELSE [response |->
                  About(session_id,
                        Respond("upload_bill", token, 200,
                                [items_extracted |-> Len(extracted_items),
                                 items |-> extracted_items,
                                 session_id |-> session_id])),
              sessions |->
                  Put(sessions, session_id,
                      Uploaded(sessions[session_id], type,
                               extracted_items))]

\* The lists the upload would make stay within MaxItems
FitsSession(session_id, type, more) ==
    IF session_id \in DOMAIN sessions /\ type \in BillTypes
    THEN Len(sessions[session_id][type \o "_items"]) + more <= MaxItems
    ELSE TRUE

\* POST /api/upload/<bill_type>
UploadBill ==
    \E token \in Callers, type \in TypeInputs, session_id \in SessionIds,
       filename \in FileInputs, raises \in BOOLEAN :
      \E extracted_items \in IF raises THEN {<<>>}
                              ELSE SeqsUpTo({SessionItem(type)}, MaxItems) :
        /\ FitsSession(session_id, type, Len(extracted_items))
        /\ Serve(Served("upload_bill", token, session_id,
                        UploadOutcome(token, type, session_id, filename,
                                      raises, extracted_items)))

\* The session with the results stored, lines 397-399
Matched(session, matched_results) ==
    Put(Put(Put(session, "matched_results", matched_results),
            "summary", calculate_summary(matched_results)),
        "status", "completed")

\* match_items of app.py, lines 370-410
MatchOutcome(token, session_id) ==
    LET refuse(status, message) ==
            Refuse("match_items", token, session_id, status, message)
    IN  IF session_id \notin DOMAIN sessions
        THEN refuse(400, "Invalid or missing session_id")
        ELSE IF ~Owns(token, session_id)
        THEN refuse(404, "Session not found")
        ELSE IF sessions[session_id].purchase_items = <<>>
        THEN refuse(400, "No purchase items uploaded")
        ELSE IF sessions[session_id].sale_items = <<>>
        THEN refuse(400, "No sale items uploaded")
        ELSE LET matched_results ==
                     match_items(sessions[session_id].purchase_items,
                                 sessions[session_id].sale_items)
             IN  [response |->
                      About(session_id,
                            Respond("match_items", token, 200,
                                    [matched_results |-> matched_results,
                                     summary |->
                                         calculate_summary(matched_results),
                                     session_id |-> session_id])),
                  sessions |->
                      Put(sessions, session_id,
                          Matched(sessions[session_id], matched_results))]

\* POST /api/match
MatchItems ==
    \E token \in Callers, session_id \in SessionIds :
        Serve(Served("match_items", token, session_id,
                     MatchOutcome(token, session_id)))

\* get_session, lines 417-438
GetSessionOutcome(token, session_id) ==
    LET refuse(status, message) ==
            Refuse("get_session", token, session_id, status, message)
    IN  IF session_id \notin DOMAIN sessions
        THEN refuse(404, "Session not found")
        ELSE IF ~Owns(token, session_id)
        THEN refuse(404, "Session not found")
        ELSE LET session == sessions[session_id]
             IN  [response |->
                      About(session_id,
                            Respond("get_session", token, 200,
                                    [status |-> session.status,
                                     purchase_items |-> session.purchase_items,
                                     sale_items |-> session.sale_items,
                                     matched_results |->
                                         Get(session, "matched_results", None),
                                     summary |->
                                         Get(session, "summary", None)])),
                  sessions |-> sessions]

\* GET /api/session/<session_id>
GetSession ==
    \E token \in Callers, session_id \in SessionIds :
        Serve(Served("get_session", token, session_id,
                     GetSessionOutcome(token, session_id)))

\* export_results, lines 445-477; the body is what the exporter is
\* given to render
ExportOutcome(token, session_id) ==
    LET refuse(status, message) ==
            Refuse("export_results", token, session_id, status, message)
    IN  IF session_id \notin DOMAIN sessions
        THEN refuse(404, "Session not found")
        ELSE IF ~Owns(token, session_id)
        THEN refuse(404, "Session not found")
        ELSE IF "matched_results" \notin DOMAIN sessions[session_id]
        THEN refuse(400, "No matched results to export")
        ELSE [response |->
                  About(session_id,
                        Respond("export_results", token, 200,
                                [matched_results |->
                                     sessions[session_id]["matched_results"],
                                 summary |->
                                     sessions[session_id]["summary"]])),
              sessions |-> sessions]

\* GET /api/export/<session_id>
ExportResults ==
    \E token \in Callers, session_id \in SessionIds :
        Serve(Served("export_results", token, session_id,
                     ExportOutcome(token, session_id)))

\* Lines 508-510: the item with the accepted keys of updates assigned
UpdatedItem(item, updates, item_type) ==
    LET accepted == DOMAIN updates \cap
                        {"serial_number", "item_name", "hsn_code",
                         item_type \o "_price"}
    IN  [k \in accepted |-> updates[k]] @@ item

\* The session with the item at the position replaced
WithItem(session, items_key, position, item) ==
    Put(session, items_key, [session[items_key] EXCEPT ![position] = item])

\* update_item, lines 490-515.  A request without item_index makes the
\* comparison of line 504 raise, which Flask answers with status 500.
UpdateItemOutcome(token, session_id, item_type, has_index, index, updates) ==
    LET refuse(status, message) ==
            Refuse("update_item", token, session_id, status, message)
        items_key == item_type \o "_items"
    IN  IF session_id \notin DOMAIN sessions
        THEN refuse(400, "Invalid or missing session_id")
        ELSE IF ~Owns(token, session_id)
        THEN refuse(404, "Session not found")
        ELSE IF item_type \notin {"purchase", "sale"}
        THEN refuse(400, "Invalid item_type")
        ELSE IF ~has_index THEN refuse(500, "Internal server error")
        ELSE IF index < 0
                \/ index >= Len(sessions[session_id][items_key])
        THEN refuse(400, "Invalid item_index")
        ELSE LET item == UpdatedItem(
                             sessions[session_id][items_key][index + 1],
                             updates, item_type)
             IN  [response |->
                      About(session_id,
                            Respond("update_item", token, 200,
                                    [item |-> item])),
                  sessions |->
                      Put(sessions, session_id,
                          WithItem(sessions[session_id], items_key,
                                   index + 1, item))]

\* POST /api/items/update
UpdateItem ==
    \E token \in Callers, session_id \in SessionIds, item_type \in TypeInputs,
       has_index \in BOOLEAN, updates \in UpdateInputs :
      \E item_index \in IF has_index THEN -1..MaxItems ELSE {0} :
        Serve(Served("update_item", token, session_id,
                     UpdateItemOutcome(token, session_id, item_type,
                                       has_index, item_index, updates)))

\* add_item, lines 527-548
AddItemOutcome(token, session_id, item_type, item_data) ==
    LET refuse(status, message) ==
            Refuse("add_item", token, session_id, status, message)
        items_key == item_type \o "_items"
    IN  IF session_id \notin DOMAIN sessions
        THEN refuse(400, "Invalid or missing session_id")
        ELSE IF ~Owns(token, session_id)
        THEN refuse(404, "Session not found")
        ELSE IF item_type \notin {"purchase", "sale"}
        THEN refuse(400, "Invalid item_type")
        ELSE LET session == sessions[session_id]
                 added == Append(session[items_key], item_data)
             IN  [response |->
                      About(session_id,
                            Respond("add_item", token, 200,
                                    [item |-> item_data,
                                     total_items |-> Len(added)])),
                  sessions |->
                      Put(sessions, session_id,
                          Put(session, items_key, added))]

\* POST /api/items/add
AddItem ==
    \E token \in Callers, session_id \in SessionIds, item_type \in TypeInputs :
        /\ FitsSession(session_id, item_type, 1)
        /\ Serve(Served("add_item", token, session_id,
                        AddItemOutcome(token, session_id, item_type,
                                       SessionItem(item_type))))

\* delete_item, lines 560-584
DeleteItemOutcome(token, session_id, item_type, has_index, item_index) ==
    LET refuse(status, message) ==
            Refuse("delete_item", token, session_id, status, message)
        items_key == item_type \o "_items"
    IN  IF session_id \notin DOMAIN sessions
        THEN refuse(400, "Invalid or missing session_id")
        ELSE IF ~Owns(token, session_id)
        THEN refuse(404, "Session not found")
        ELSE IF item_type \notin {"purchase", "sale"}
        THEN refuse(400, "Invalid item_type")
        ELSE IF ~has_index THEN refuse(500, "Internal server error")
        ELSE IF item_index < 0
                \/ item_index >= Len(sessions[session_id][items_key])
        THEN refuse(400, "Invalid item_index")
        ELSE LET session == sessions[session_id]
                 left == ListPop(session[items_key], item_index + 1)
             IN  [response |->
                      About(session_id,
                            Respond("delete_item", token, 200,
                                    [deleted_item |->
                                         session[items_key][item_index + 1],
                                     total_items |-> Len(left)])),
                  sessions |->
                      Put(sessions, session_id,
                          Put(session, items_key, left))]

\* POST /api/items/delete
DeleteItem ==
    \E token \in Callers, session_id \in SessionIds, item_type \in TypeInputs,
       has_index \in BOOLEAN :
      \E item_index \in IF has_index THEN -1..MaxItems ELSE {0} :
        Serve(Served("delete_item", token, session_id,
                     DeleteItemOutcome(token, session_id, item_type,
                                       has_index, item_index)))

\* delete_session, lines 591-601
DeleteSessionOutcome(token, session_id) ==
    LET refuse(status, message) ==
            Refuse("delete_session", token, session_id, status, message)
    IN  IF session_id \notin DOMAIN sessions
        THEN refuse(404, "Session not found")
        ELSE IF ~Owns(token, session_id)
        THEN refuse(404, "Session not found")
        ELSE [response |->
                  About(session_id,
                        Respond("delete_session", token, 200,
                                [message |-> "Session deleted successfully"])),
              sessions |->
                  [k \in DOMAIN sessions \ {session_id} |-> sessions[k]]]

\* DELETE /api/session/<session_id>
DeleteSession ==
    \E token \in Callers, session_id \in SessionIds :
        Serve(Served("delete_session", token, session_id,
                     DeleteSessionOutcome(token, session_id)))

NextSessions ==
    \/ CreateSession
    \/ UploadBill
    \/ MatchItems
    \/ GetSession
    \/ ExportResults
    \/ UpdateItem
    \/ AddItem
    \/ DeleteItem
    \/ DeleteSession

\* The users table after the administrator created bob and eve and
\* deleted eve, each of the three having logged in before
InitSessions ==
    /\ purchase_items = <<>>
    /\ sale_items = <<>>
    /\ InitCall
    /\ ParserIdle
    /\ ProviderIdle
    /\ users = <<DefaultAdmin, UserRow("bob", "user"),
                 [UserRow("eve", "user") EXCEPT !.is_active = FALSE]>>
    /\ issued_tokens = {generate_token(k, users[k].role) : k \in DOMAIN users}
    /\ sessions = NoSessions
    /\ session_count = 0
    /\ response = NoResponse

\* The session requests of two users and of a deleted one
SpecSessions == InitSessions /\ [][NextSessions]_vars

(* ------------------------------------------------------------------ *)
(* Properties                                                         *)
(* ------------------------------------------------------------------ *)

Running == pc \in {"loop", "done"}

Range(seq) == {seq[k] : k \in DOMAIN seq}

MatchedPurchases == {matched_pairs[k][1] : k \in DOMAIN matched_pairs}

MatchedSales == {matched_pairs[k][2] : k \in DOMAIN matched_pairs}

\* The sale positions no purchase before position q has consumed: the
\* pool that purchase q is scored against.
Available(q) ==
    (1..Len(in_sales)) \
        {matched_pairs[k][2] :
            k \in {j \in DOMAIN matched_pairs : matched_pairs[j][1] < q}}

PairScore(q, si) == calculate_match_score(in_purchases[q], in_sales[si])

\* C1  Matcher conservation: the matched and the unmatched purchases
\* number the purchases, the matched and the unmatched sales number the
\* sales; during the loop the same holds of the purchases processed so far
\* and of the pool.
C1_Conservation ==
    /\ pc = "loop" =>
          /\ Len(matched_items) + Len(unmatched_purchases) = purchase_pos - 1
          /\ Len(matched_items) + Len(remaining_sales) = Len(in_sales)
    /\ pc = "done" =>
          /\ Len(matched_items) + Len(unmatched_purchases) = Len(in_purchases)
          /\ Len(matched_items) + Len(unmatched_sales) = Len(in_sales)

C1_Witness ==
    /\ pc = "done"
    /\ Len(matched_items) = 1
    /\ Len(unmatched_purchases) = 1
    /\ Len(unmatched_sales) = 1

\* C2  No double-matching: the commits consume pairwise different sale
\* positions and come from pairwise different purchase positions, there is
\* one matched item per commit, and no consumed sale position is left in
\* the pool that later purchases are scored against.
C2_NoDoubleMatch ==
    Running =>
        /\ \A j, k \in DOMAIN matched_pairs :
              j # k =>
                 /\ matched_pairs[j][1] # matched_pairs[k][1]
                 /\ matched_pairs[j][2] # matched_pairs[k][2]
        /\ Len(matched_items) = Len(matched_pairs)
        /\ Range(pool_idx) \cap MatchedSales = {}
        /\ Len(remaining_sales) = Len(pool_idx)
        /\ \A k \in DOMAIN pool_idx : remaining_sales[k] = in_sales[pool_idx[k]]

\* Two purchases that both score 100 against the first sale: the second
\* purchase is left with the other sale only.
C2_Witness ==
    /\ pc = "done"
    /\ Len(in_purchases) = 2
    /\ in_purchases[1] = in_purchases[2]
    /\ Len(in_sales) = 2
    /\ PairScore(2, 1) = 100
    /\ matched_pairs = <<(<<1, 1>>)>>
    /\ unmatched_p_idx = <<2>>

\* The record holds a value for the field: the key is there and its value
\* is neither None nor ''.
Present(item, k) == k \in DOMAIN item /\ Truthy(item[k])

\* Both records hold the field, with the same value.
SameField(p, s, k) == Present(p, k) /\ Present(s, k) /\ p[k] = s[k]

NormName(item) == normalize_item_name(item["item_name"])

HaveNames(p, s) == "item_name" \in DOMAIN p /\ "item_name" \in DOMAIN s

\* The three tiers of the item-name rule, each excluding the ones before.
NamesEqual(p, s) == HaveNames(p, s) /\ NormName(p) = NormName(s)

NamesContain(p, s) ==
    /\ HaveNames(p, s)
    /\ NormName(p) # NormName(s)
    /\ NormName(p) # <<>>
    /\ NormName(s) # <<>>
    /\ \/ Contains(NormName(p), NormName(s))
       \/ Contains(NormName(s), NormName(p))

NamesSimilar(p, s) ==
    /\ HaveNames(p, s)
    /\ ~NamesEqual(p, s)
    /\ ~NamesContain(p, s)
    /\ LET w1 == WordSet(NormName(p))
           w2 == WordSet(NormName(s))
       IN  /\ w1 # {}
           /\ w2 # {}
           /\ 10 * Cardinality(w1 \cap w2) > 8 * Cardinality(w1 \cup w2)

\* Both records hold an item name and the names agree by one of the tiers.
SameName(p, s) ==
    /\ Present(p, "item_name")
    /\ Present(s, "item_name")
    /\ NamesEqual(p, s) \/ NamesContain(p, s) \/ NamesSimilar(p, s)

\* The number of fields the two records agree on.
AgreeCount(p, s) ==
    (IF SameField(p, s, "serial_number") THEN 1 ELSE 0)
    + (IF SameField(p, s, "hsn_code") THEN 1 ELSE 0)
    + (IF SameName(p, s) THEN 1 ELSE 0)

\* C3  Absence is never a match: in the score of the pair [p], [s] a field
\* contributes only when both records hold a value for it, and two records
\* that both lack a serial number and an HSN code stay below the threshold
\* and are not matched.
C3_AbsenceIsNeverAMatch ==
    pc = "done" =>
        LET p == in_purchases[1]
            s == in_sales[1]
        IN  /\ SerialScore(p, s) > 0 =>
                  Present(p, "serial_number") /\ Present(s, "serial_number")
            /\ HsnScore(p, s) > 0 =>
                  Present(p, "hsn_code") /\ Present(s, "hsn_code")
            /\ NameScore(p, s) > 0 =>
                  Present(p, "item_name") /\ Present(s, "item_name")
            /\ (/\ ~Present(p, "serial_number")
                /\ ~Present(s, "serial_number")
                /\ ~Present(p, "hsn_code")
                /\ ~Present(s, "hsn_code"))
               => best_match_score < MatchThreshold /\ matched_items = <<>>

\* C4  Threshold boundary (0.8): a purchase and a sale that hold the same
\* serial number and the same HSN code are never both returned unmatched,
\* and as the one-element lists [p], [s] they are returned as one matched
\* item and nothing unmatched.
C4_SameSerialAndHsnMatch ==
    pc = "done" =>
        /\ \A q \in Range(unmatched_p_idx), si \in Range(unmatched_s_idx) :
              ~(/\ SameField(in_purchases[q], in_sales[si], "serial_number")
                /\ SameField(in_purchases[q], in_sales[si], "hsn_code"))
        /\ (/\ Len(in_purchases) = 1
            /\ Len(in_sales) = 1
            /\ SameField(in_purchases[1], in_sales[1], "serial_number")
            /\ SameField(in_purchases[1], in_sales[1], "hsn_code"))
           => /\ Len(matched_items) = 1
              /\ unmatched_purchases = <<>>
              /\ unmatched_sales = <<>>

\* The pair at exactly 0.8 (names disagree), matched.
C4_Witness ==
    /\ pc = "done"
    /\ Len(in_purchases) = 1
    /\ Len(in_sales) = 1
    /\ SameField(in_purchases[1], in_sales[1], "serial_number")
    /\ SameField(in_purchases[1], in_sales[1], "hsn_code")
    /\ best_match_score = 80
    /\ Len(matched_items) = 1

\* C5  A single signal alone cannot clear the bar: the pair [p], [s] is
\* committed as matched only if the records agree on at least two of the
\* three fields.
C5_MatchedAgreeOnTwoFields ==
    (pc = "done" /\ matched_items # <<>>) =>
        AgreeCount(in_purchases[1], in_sales[1]) >= 2

\* C6 as claimed: a pair whose serial numbers agree and whose names agree
\* by any tier, HSN codes absent or different, is returned as one matched
\* item.
C6_SerialAndAnyNameTierMatch ==
    pc = "done" =>
        LET p == in_purchases[1]
            s == in_sales[1]
        IN  (/\ SameField(p, s, "serial_number")
             /\ SameName(p, s)
             /\ ~SameField(p, s, "hsn_code"))
            => Len(matched_items) = 1

\* C6 as amended: a pair whose serial numbers agree and whose normalised
\* names are equal is returned as one matched item, whatever the HSN codes;
\* when the names agree only by containment or by the Jaccard tier and the
\* HSN code contributes nothing, the pair is returned unmatched.
C6_SerialAndEqualNameMatch ==
    pc = "done" =>
        LET p == in_purchases[1]
            s == in_sales[1]
        IN  /\ (SameField(p, s, "serial_number") /\ NamesEqual(p, s))
               => /\ Len(matched_items) = 1
                  /\ unmatched_purchases = <<>>
                  /\ unmatched_sales = <<>>
            /\ (/\ SameField(p, s, "serial_number")
                /\ NamesContain(p, s) \/ NamesSimilar(p, s)
                /\ HsnScore(p, s) = 0)
               => /\ matched_items = <<>>
                  /\ Len(unmatched_purchases) = 1
                  /\ Len(unmatched_sales) = 1

\* Serial numbers agree, names "tv" and "TV " are equal once normalised,
\* no HSN contribution: the score is exactly 0.7 and the pair is matched.
C6_Witness ==
    /\ pc = "done"
    /\ SameField(in_purchases[1], in_sales[1], "serial_number")
    /\ Get(in_purchases[1], "item_name", None) = NameTv
    /\ Get(in_sales[1], "item_name", None) = NameTvUpper
    /\ HsnScore(in_purchases[1], in_sales[1]) = 0
    /\ best_match_score = MatchThreshold
    /\ Len(matched_items) = 1

\* The name contribution the tiered rule gives the two records
TierScore(p, s) ==
    IF NamesEqual(p, s) THEN NameWeight
    ELSE IF NamesContain(p, s) THEN NamePartialWeight
    ELSE IF NamesSimilar(p, s) THEN NameSimilarWeight
    ELSE 0

\* C24: for two records that both have an item name the name contribution
\* is 0.2 when the normalised names are equal, otherwise 0.14 when both
\* are non-empty and one contains the other, otherwise 0.10 when the
\* Jaccard similarity of the word sets is above 0.8, otherwise 0; at most
\* one tier applies, so the total score is at most 1.0, and the score of
\* (a, b) is the score of (b, a).
C24_NameTiers ==
    (Len(in_purchases) = 1 /\ Len(in_sales) = 1) =>
        LET p == in_purchases[1]
            s == in_sales[1]
        IN  /\ HaveNames(p, s) => NameScore(p, s) = TierScore(p, s)
            /\ NameScore(p, s) \in
                   {0, NameSimilarWeight, NamePartialWeight, NameWeight}
            /\ calculate_match_score(p, s) <= 100
            /\ calculate_match_score(p, s) = calculate_match_score(s, p)

\* "tv x" and "x  tv": the same words in another order score 0.10; the
\* pair has been scored
C24_Witness ==
    /\ pc = "done"
    /\ Get(in_purchases[1], "item_name", None) = NameTvX
    /\ Get(in_sales[1], "item_name", None) = NameXTv
    /\ NameScore(in_purchases[1], in_sales[1]) = NameSimilarWeight
    /\ best_match_score = NameSimilarWeight

\* The largest number of a non-empty finite set of numbers
MaxOf(S) == CHOOSE m \in S : \A n \in S : n <= m

\* The best score purchase q can get from the pool it meets, 0 for none.
MaxScore(q) == MaxOf({PairScore(q, si) : si \in Available(q)} \cup {0})

IsPrefix(s, t) == Len(s) <= Len(t) /\ SubSeq(t, 1, Len(s)) = s

Increasing(seq) == \A j, k \in DOMAIN seq : j < k => seq[j] < seq[k]

\* C7  Commit rule: a processed purchase is a matched item if and only if
\* the maximum score over the pool it met is at least 0.7, and otherwise an
\* unmatched item with status 'unmatched_purchase'; the pool is the sales
\* no commit consumed; an empty purchase list gives no matched item and
\* every sale unmatched.
C7_CommitRule ==
    Running =>
        /\ \A q \in 1..(purchase_pos - 1) :
              /\ q \in MatchedPurchases <=> MaxScore(q) >= MatchThreshold
              /\ q \in Range(unmatched_p_idx) <=> q \notin MatchedPurchases
        /\ Len(unmatched_purchases) = Len(unmatched_p_idx)
        /\ \A k \in DOMAIN unmatched_purchases :
              /\ unmatched_purchases[k].status = "unmatched_purchase"
              /\ unmatched_purchases[k] =
                     create_unmatched_item(in_purchases[unmatched_p_idx[k]],
                                           "purchase")
        /\ Range(pool_idx) = (1..Len(in_sales)) \ MatchedSales
        /\ Increasing(pool_idx)
        /\ remaining_sales = [k \in DOMAIN pool_idx |-> in_sales[pool_idx[k]]]
        /\ (pc = "done" /\ in_purchases = <<>>) =>
              /\ matched_items = <<>>
              /\ unmatched_s_idx = [k \in 1..Len(in_sales) |-> k]
              /\ Len(unmatched_sales) = Len(in_sales)

\* The first purchase commits at a score of exactly 0.7, the second meets a
\* best score above 0 and below 0.7 and is returned unmatched.
C7_Witness ==
    /\ pc = "done"
    /\ Len(in_purchases) = 2
    /\ Len(matched_pairs) = 1
    /\ matched_pairs[1][1] = 1
    /\ PairScore(1, matched_pairs[1][2]) = MatchThreshold
    /\ unmatched_p_idx = <<2>>
    /\ best_match_score > 0
    /\ best_match_score < MatchThreshold
    /\ unmatched_purchases[1].status = "unmatched_purchase"

C8_Selection ==
    Running =>
        /\ \A k \in DOMAIN matched_pairs :
              LET q == matched_pairs[k][1]
                  si == matched_pairs[k][2]
              IN  /\ si \in Available(q)
                  /\ \A sj \in Available(q) :
                        \/ PairScore(q, sj) < PairScore(q, si)
                        \/ PairScore(q, sj) = PairScore(q, si) /\ si <= sj
                  /\ matched_items[k] =
                         create_matched_item(in_purchases[q], in_sales[si])
        /\ \A j, k \in DOMAIN matched_pairs :
              j < k => matched_pairs[j][1] < matched_pairs[k][1]
        /\ Increasing(unmatched_p_idx)
        /\ MatchedPurchases \cup Range(unmatched_p_idx) = 1..(purchase_pos - 1)

C8_NeverRevised ==
    Running =>
        /\ IsPrefix(matched_pairs, matched_pairs')
        /\ IsPrefix(matched_items, matched_items')
        /\ IsPrefix(unmatched_purchases, unmatched_purchases')
        /\ purchase_pos' >= purchase_pos

\* C8  Greedy purchase-ordered selection: purchases are processed in their
\* order; the sale committed for a purchase has the maximum score among the
\* sales no earlier purchase consumed and, among those with that score, the
\* least input position; no step changes an earlier commitment.
C8_GreedySelection == []C8_Selection /\ [][C8_NeverRevised]_vars

\* Purchase B ties at 0.7 on both sales and takes the first, sale A, which
\* leaves purchase C (0.8 with sale A, 0.5 with sale B) unmatched, although
\* B with sale B and C with sale A would have matched both.
C8_Witness ==
    /\ pc = "done"
    /\ in_purchases = <<ItemB, ItemC>>
    /\ in_sales = <<ItemA, ItemB>>
    /\ PairScore(1, 1) = PairScore(1, 2)
    /\ PairScore(1, 2) >= MatchThreshold
    /\ PairScore(2, 1) >= MatchThreshold
    /\ matched_pairs = <<(<<1, 1>>)>>
    /\ unmatched_p_idx = <<2>>
    /\ unmatched_s_idx = <<2>>

\* C9  match_items never mutates its inputs: in every state of the call
\* the two argument lists are the lists they were at the call.
C9_InputsNotMutated ==
    /\ purchase_items = in_purchases
    /\ sale_items = in_sales

\* A commit has popped the pool; the caller's sale list is whole.
C9_Witness ==
    /\ pc = "done"
    /\ Len(matched_items) = 1
    /\ Len(sale_items) = 2
    /\ Len(remaining_sales) = 1
    /\ sale_items = in_sales

Finished == pc \in {"done", "summarised"}

\* The purchase record and the sale record of the k-th matched item
PurchaseOf(k) == in_purchases[matched_pairs[k][1]]

SaleOf(k) == in_sales[matched_pairs[k][2]]

\* The price a record holds under key, 0 when it has no such key
PriceOf(item, key) == Get(item, key, 0)

\* C11: every matched item has profit_loss = sale_price - purchase_price
\* and profit_loss_percentage = profit_loss / purchase_price * 100, the
\* percentage being 0 when purchase_price is 0; for purchase_price 100
\* and sale_price 120 the profit_loss is 20 and the percentage 20.
C11_ProfitLossArithmetic ==
    \A k \in DOMAIN matched_items :
        LET m == matched_items[k]
            purchase_price == PriceOf(PurchaseOf(k), "purchase_price")
            sale_price == PriceOf(SaleOf(k), "sale_price")
            pct == m.profit_loss_percentage
        IN  /\ m.purchase_price = purchase_price
            /\ m.sale_price = sale_price
            /\ m.profit_loss = sale_price - purchase_price
            /\ pct.den # 0
            /\ purchase_price = 0 => pct.num = 0
            /\ purchase_price # 0 =>
                   pct.num * purchase_price = m.profit_loss * 100 * pct.den
            /\ (purchase_price = 100 /\ sale_price = 120) =>
                   /\ m.profit_loss = 20
                   /\ pct.num = 20 * pct.den

\* A result with a 100 -> 120 item and an item bought at 0 and sold above 0
C11_Witness ==
    /\ Finished
    /\ \E k \in DOMAIN matched_items :
           /\ matched_items[k].purchase_price = 100
           /\ matched_items[k].sale_price = 120
    /\ \E k \in DOMAIN matched_items :
           /\ matched_items[k].purchase_price = 0
           /\ matched_items[k].sale_price > 0

\* A record has a value for key: the key is there and holds neither None
\* nor the empty string
HasValue(item, key) == Get(item, key, None) \notin {None, <<>>}

\* The purchase record's value, else the sale record's, else the placeholder
Resolved(purchase_item, sale_item, key, placeholder) ==
    IF HasValue(purchase_item, key) THEN purchase_item[key]
    ELSE IF HasValue(sale_item, key) THEN sale_item[key]
    ELSE placeholder

\* C12: in a matched item each of serial_number, hsn_code and item_name is
\* the purchase record's value when it has one, otherwise the sale
\* record's when it has one, otherwise 'N/A' / 'Unknown'; the field is
\* never None or empty.
C12_IdentifiersResolved ==
    \A k \in DOMAIN matched_items :
        LET m == matched_items[k]
        IN  /\ m.serial_number =
                   Resolved(PurchaseOf(k), SaleOf(k), "serial_number", NA)
            /\ m.hsn_code =
                   Resolved(PurchaseOf(k), SaleOf(k), "hsn_code", NA)
            /\ m.item_name =
                   Resolved(PurchaseOf(k), SaleOf(k), "item_name", Unknown)
            /\ m.serial_number \notin {None, <<>>}
            /\ m.hsn_code \notin {None, <<>>}
            /\ m.item_name \notin {None, <<>>}

\* seq lists the members of S in increasing order, each once
Enumerates(seq, S) == Increasing(seq) /\ Range(seq) = S

\* C13: when match_items returns, unmatched_sales holds one item of status
\* 'unmatched_sale' for each sale no purchase consumed, and no other, in
\* the order of the input sale list; unmatched_purchases holds the
\* purchases that were not committed, in input order; the matched items
\* are in the order of their purchases.
C13_LeftoverOrder ==
    Finished =>
        /\ Enumerates(unmatched_s_idx, (1..Len(in_sales)) \ MatchedSales)
        /\ Len(unmatched_sales) = Len(unmatched_s_idx)
        /\ \A k \in DOMAIN unmatched_sales :
               /\ unmatched_sales[k] =
                      create_unmatched_item(in_sales[unmatched_s_idx[k]],
                                            "sale")
               /\ unmatched_sales[k].status = "unmatched_sale"
        /\ Enumerates(unmatched_p_idx,
                      (1..Len(in_purchases)) \ MatchedPurchases)
        /\ Len(unmatched_purchases) = Len(unmatched_p_idx)
        /\ \A k \in DOMAIN unmatched_purchases :
               unmatched_purchases[k] =
                   create_unmatched_item(in_purchases[unmatched_p_idx[k]],
                                         "purchase")
        /\ Increasing([k \in DOMAIN matched_pairs |-> matched_pairs[k][1]])
        /\ Len(matched_items) = Len(matched_pairs)
        /\ \A k \in DOMAIN matched_items :
               matched_items[k] =
                   create_matched_item(PurchaseOf(k), SaleOf(k))

\* Two different sales are left over after a purchase was processed
C13_Witness ==
    /\ pc = "done"
    /\ Len(in_purchases) > 0
    /\ Len(unmatched_sales) = 2
    /\ unmatched_sales[1] # unmatched_sales[2]

\* C14: every item of unmatched_purchases has status 'unmatched_purchase'
\* and sale_price 0, every item of unmatched_sales has status
\* 'unmatched_sale' and purchase_price 0, whatever price fields the source
\* record holds, and both have profit_loss 0.
C14_UnmatchedSingleSided ==
    /\ \A k \in DOMAIN unmatched_purchases :
           LET u == unmatched_purchases[k]
           IN  /\ u.status = "unmatched_purchase"
               /\ u.sale_price = 0
               /\ u.profit_loss = 0
               /\ u.purchase_price =
                      PriceOf(in_purchases[unmatched_p_idx[k]],
                              "purchase_price")
    /\ \A k \in DOMAIN unmatched_sales :
           LET u == unmatched_sales[k]
           IN  /\ u.status = "unmatched_sale"
               /\ u.purchase_price = 0
               /\ u.profit_loss = 0
               /\ u.sale_price =
                      PriceOf(in_sales[unmatched_s_idx[k]], "sale_price")

\* An unmatched purchase whose record holds a sale_price and an unmatched
\* sale whose record holds a purchase_price
C14_Witness ==
    /\ Finished
    /\ \E k \in DOMAIN unmatched_purchases :
           PriceOf(in_purchases[unmatched_p_idx[k]], "sale_price") # 0
    /\ \E k \in DOMAIN unmatched_sales :
           PriceOf(in_sales[unmatched_s_idx[k]], "purchase_price") # 0

\* The sum of seq[k][key] over the positions k in S
RECURSIVE SumOver(_, _, _)
SumOver(seq, key, S) ==
    IF S = {} THEN 0
    ELSE LET k == CHOOSE j \in S : TRUE
         IN  seq[k][key] + SumOver(seq, key, S \ {k})

Total(seq, key) == SumOver(seq, key, DOMAIN seq)

\* C15: calculate_summary returns the three partition lengths, the sums of
\* purchase_price and sale_price over the matched items only,
\* total_profit_loss = total_sale_value - total_purchase_value = the sum
\* of the matched items' profit_loss, the one-sided sums of the unmatched
\* partitions, and the numbers of matched items with profit_loss > 0 and
\* < 0, which together are at most the number of matched items.
C15_SummaryAggregation ==
    pc = "summarised" =>
        /\ summary.total_matched_items = Len(matched_items)
        /\ summary.total_unmatched_purchases = Len(unmatched_purchases)
        /\ summary.total_unmatched_sales = Len(unmatched_sales)
        /\ summary.total_purchase_value =
               Total(matched_items, "purchase_price")
        /\ summary.total_sale_value = Total(matched_items, "sale_price")
        /\ summary.total_profit_loss =
               summary.total_sale_value - summary.total_purchase_value
        /\ summary.total_profit_loss = Total(matched_items, "profit_loss")
        /\ summary.total_unmatched_purchase_value =
               Total(unmatched_purchases, "purchase_price")
        /\ summary.total_unmatched_sale_value =
               Total(unmatched_sales, "sale_price")
        /\ summary.profit_items_count =
               Cardinality({k \in DOMAIN matched_items :
                               matched_items[k].profit_loss > 0})
        /\ summary.loss_items_count =
               Cardinality({k \in DOMAIN matched_items :
                               matched_items[k].profit_loss < 0})
        /\ summary.profit_items_count + summary.loss_items_count
               <= summary.total_matched_items

\* A summary of two matched items, one sold at a profit and one at the
\* purchase price
C15_Witness ==
    /\ pc = "summarised"
    /\ summary.total_matched_items = 2
    /\ summary.profit_items_count = 1
    /\ summary.loss_items_count = 0
    /\ summary.total_purchase_value > 0

\* C16: when total_purchase_value is 0, which is when there is no matched
\* item or every matched purchase price is 0, calculate_summary returns
\* total_profit_loss_percentage = 0; otherwise it returns
\* total_profit_loss / total_purchase_value * 100.
C16_SummaryZeroDivisionGuard ==
    pc = "summarised" =>
        LET pct == summary.total_profit_loss_percentage
            total == summary.total_purchase_value
        IN  /\ pct.den # 0
            /\ total = 0 <=>
                   \A k \in DOMAIN matched_items :
                       matched_items[k].purchase_price = 0
            /\ total = 0 => pct.num = 0
            /\ total # 0 =>
                   pct.num * total = summary.total_profit_loss * 100 * pct.den

\* A summary of matched items bought at 0 and sold above 0
C16_Witness ==
    /\ pc = "summarised"
    /\ summary.total_matched_items > 0
    /\ summary.total_purchase_value = 0
    /\ summary.total_profit_loss > 0

(* ------------------------------------------------------------------ *)
(* parse_bill                                                         *)
(* ------------------------------------------------------------------ *)

Returned == parse_pc = "returned"

\* The members of a set of positions, in increasing order
Sorted(S) ==
    CHOOSE seq \in [1..Cardinality(S) -> S] :
        Increasing(seq) /\ Range(seq) = S

IsBlank(p) == Strip(lines[p]) = <<>>

\* The position of the header row of the table, 0 when there is none
HeaderAt ==
    LET headers == {p \in DOMAIN lines : IsHeaderLine(Strip(lines[p]))}
    IN  IF headers = {} THEN 0
        ELSE CHOOSE p \in headers : \A q \in headers : p <= q

\* The data rows of the table: the non-blank lines after the header
RowPositions ==
    IF HeaderAt = 0 THEN <<>>
    ELSE Sorted({p \in DOMAIN lines : p > HeaderAt /\ ~IsBlank(p)})

\* The candidate records of the tabular strategy, one per data row
TableCandidates ==
    [k \in DOMAIN RowPositions |->
        parse_table_row(Strip(lines[RowPositions[k]]), bill_type)]

\* first..last is a run of non-blank lines that no non-blank line adjoins
IsMaximalRun(first, last) ==
    /\ first <= last
    /\ \A p \in first..last : ~IsBlank(p)
    /\ first = 1 \/ IsBlank(first - 1)
    /\ last = Len(lines) \/ IsBlank(last + 1)

\* The last line of the maximal run that starts at first
RunEnd(first) == CHOOSE last \in DOMAIN lines : IsMaximalRun(first, last)

\* The first lines of the maximal runs, in text order
RunStarts ==
    Sorted({first \in DOMAIN lines :
               \E last \in DOMAIN lines : IsMaximalRun(first, last)})

\* The record the fallback strategy accumulates over the lines first..last
RECURSIVE Accumulated(_, _)
Accumulated(first, last) ==
    IF last < first THEN EmptyItem
    ELSE FallbackUpdate(Accumulated(first, last - 1), Strip(lines[last]),
                        bill_type)

\* The candidate records of the fallback strategy, one per maximal run
FallbackCandidates ==
    [k \in DOMAIN RunStarts |->
        Accumulated(RunStarts[k], RunEnd(RunStarts[k]))]

\* The record has an identifying field and a non-zero price of the role
RoleValid(item) ==
    /\ \/ "item_name" \in DOMAIN item
       \/ "serial_number" \in DOMAIN item
       \/ "hsn_code" \in DOMAIN item
    /\ (bill_type \o "_price") \in DOMAIN item
    /\ item[bill_type \o "_price"] # 0

\* The candidate records of the strategy whose records were returned
Candidates ==
    IF fallback_steps = 0 THEN TableCandidates ELSE FallbackCandidates

\* C17: every record parse_bill returns, from the tabular or the fallback
\* strategy, has one of item_name, serial_number, hsn_code and the price
\* field of the requested role with a non-zero value; the candidates that
\* fail this are dropped and all the others are returned.
C17_ParseValidity ==
    Returned =>
        /\ \A k \in DOMAIN parsed : RoleValid(parsed[k])
        /\ parsed = SelectSeq(Candidates, RoleValid)

\* A record is returned and another candidate was dropped
C17_Witness ==
    /\ Returned
    /\ Len(parsed) >= 1
    /\ Len(Candidates) > Len(parsed)

\* C18: the tabular strategy runs first; when it yields a valid record its
\* records are returned and the fallback strategy does nothing; the
\* fallback strategy runs only when the tabular one yielded no record,
\* and then over all lines; the result never mixes the two.
C18_StrategyOrder ==
    /\ parse_pc = "table" => fallback_steps = 0
    /\ parse_pc = "fallback" =>
           /\ SelectSeq(TableCandidates, RoleValid) = <<>>
           /\ fallback_steps = line_pos - 1
    /\ Returned =>
           IF SelectSeq(TableCandidates, RoleValid) # <<>>
           THEN /\ parsed = SelectSeq(TableCandidates, RoleValid)
                /\ fallback_steps = 0
                /\ \A k \in DOMAIN item_from :
                       item_from[k].strategy = "table"
           ELSE /\ parsed = SelectSeq(FallbackCandidates, RoleValid)
                /\ fallback_steps = Len(lines)
                /\ \A k \in DOMAIN item_from :
                       item_from[k].strategy = "fallback"

\* The table is returned from a text whose lines would give the fallback
\* strategy a record too
C18_Witness ==
    /\ Returned
    /\ fallback_steps = 0
    /\ Len(parsed) >= 1
    /\ SelectSeq(FallbackCandidates, RoleValid) # <<>>

\* C19: in the fallback strategy every returned record is accumulated from
\* the lines of one maximal run of non-blank lines and from no other line,
\* at most one record per run; a blank line clears the accumulator; the
\* run that ends with the text is emitted like the others.
C19_FallbackBoundaries ==
    /\ parse_pc = "fallback" =>
           /\ \A p \in run_first..(line_pos - 1) : ~IsBlank(p)
           /\ run_first = 1 \/ IsBlank(run_first - 1)
           /\ current_item = Accumulated(run_first, line_pos - 1)
    /\ (Returned /\ fallback_steps > 0) =>
           /\ Len(parsed) = Len(item_from)
           /\ \A k \in DOMAIN parsed :
                  /\ IsMaximalRun(item_from[k].first, item_from[k].last)
                  /\ parsed[k] =
                         Accumulated(item_from[k].first, item_from[k].last)
           /\ Increasing([k \in DOMAIN item_from |-> item_from[k].first])
           /\ parsed = SelectSeq(FallbackCandidates, RoleValid)

\* Two runs with a blank line between them each gave a record
C19_Witness ==
    /\ Returned
    /\ fallback_steps > 0
    /\ Len(parsed) = 2

\* The str fields and the number fields of a fallback record
StrFields == {"serial_number", "hsn_code", "item_name"}

NumberFields == {"quantity", bill_type \o "_price"}

\* What line p yields for the str field: None or '' when it yields nothing
StrYield(field, p) ==
    CASE field = "serial_number" -> extract_serial_number(Strip(lines[p]))
      [] field = "hsn_code" -> extract_hsn_code(Strip(lines[p]))
      [] field = "item_name" -> extract_item_name(Strip(lines[p]))

\* What line p yields for the number field: NoNumber or 0 for nothing
NumberYield(field, p) ==
    IF field = "quantity" THEN extract_quantity(Strip(lines[p]))
    ELSE extract_price(Strip(lines[p]))

\* The least position of a non-empty set of positions
MinOf(S) == CHOOSE m \in S : \A n \in S : m <= n

\* The record that holds, for each field some line of first..last yields
\* a value for, the value of the first such line, and no other key
FirstOccurrences(first, last) ==
    LET str_lines(f) == {p \in first..last : Truthy(StrYield(f, p))}
        number_lines(f) ==
            {p \in first..last : TruthyNumber(NumberYield(f, p))}
        keys == {f \in StrFields : str_lines(f) # {}}
                \cup {f \in NumberFields : number_lines(f) # {}}
    IN  [f \in keys |->
            IF f \in StrFields THEN StrYield(f, MinOf(str_lines(f)))
            ELSE NumberYield(f, MinOf(number_lines(f)))[1]]

\* C25: within one run of non-blank lines of the fallback strategy each
\* of serial_number, hsn_code, item_name, quantity and the role price is
\* set by the first line that yields a value for it and is not overwritten
\* by a later line of the run.
C25_FirstOccurrenceWins ==
    /\ parse_pc = "fallback" =>
           current_item = FirstOccurrences(run_first, line_pos - 1)
    /\ (Returned /\ fallback_steps > 0) =>
           \A k \in DOMAIN parsed :
               parsed[k] =
                   FirstOccurrences(item_from[k].first, item_from[k].last)

\* A record is returned with the price of the first line of its run,
\* "Rs.90", the second line, "AB12  Rs.50", yielding another price
C25_Witness ==
    /\ Returned
    /\ fallback_steps > 0
    /\ lines = <<PriceLine, CodePriceLine>>
    /\ Len(parsed) = 1
    /\ parsed[1][bill_type \o "_price"] = 9000

\* The tokens of the row: the parts between the column gaps, stripped,
\* the empty ones left out
Tokens(row) ==
    LET parts == SplitBy(ColumnGapPattern, row, 1, <<>>)
        stripped == [n \in DOMAIN parts |-> Strip(parts[n])]
    IN  SelectSeq(stripped, LAMBDA part : part # <<>>)

\* The greatest position of a non-empty set of positions
LastOf(S) == CHOOSE m \in S : \A n \in S : n <= m

\* The record the overwrite rules give the row
ExpectedRow(row, type) ==
    LET tokens == Tokens(row)
        serials == {n \in DOMAIN tokens :
                       IsCode(tokens[n]) /\ Len(tokens[n]) <= MaxSerialLen}
        hsns == {n \in DOMAIN tokens : IsHsnCode(tokens[n])}
        shorts == {n \in DOMAIN tokens :
                      /\ IsShortNumber(tokens[n])
                      /\ IntOf(tokens[n]) \in 1..MaxRowQuantity}
        \* the token accepted as quantity: the first that qualifies
        quantities == IF shorts = {} THEN {} ELSE {MinOf(shorts)}
        prices == {n \in DOMAIN tokens \ quantities :
                      TruthyNumber(extract_price(tokens[n]))}
        names == {n \in DOMAIN tokens \ (quantities \cup prices) :
                     /\ Len(tokens[n]) > 3
                     /\ ~IsDigits(tokens[n])
                     /\ ~IsCode(tokens[n])}
        keys == (IF serials = {} THEN {} ELSE {"serial_number"})
                \cup (IF hsns = {} THEN {} ELSE {"hsn_code"})
                \cup (IF quantities = {} THEN {} ELSE {"quantity"})
                \cup (IF prices = {} THEN {} ELSE {type \o "_price"})
                \cup (IF names = {} THEN {} ELSE {"item_name"})
    IN  [k \in keys |->
            CASE k = "serial_number" -> tokens[MinOf(serials)]
              [] k = "hsn_code" -> tokens[LastOf(hsns)]
              [] k = "quantity" -> IntOf(tokens[MinOf(quantities)])
              [] k = "item_name" -> tokens[MinOf(names)]
              [] OTHER -> extract_price(tokens[LastOf(prices)])[1]]

\* C26: in _parse_table_row the hsn_code is the last token of 4 to 8
\* digits and the role price the price of the last token that yields one,
\* also when that token was classified as HSN code; serial_number,
\* quantity and item_name keep the first qualifying token; a token
\* accepted as quantity is not classified further.
C26_RowOverwriteRules ==
    \A p \in DOMAIN lines :
        ~IsBlank(p) =>
            parse_table_row(Strip(lines[p]), bill_type) =
                ExpectedRow(Strip(lines[p]), bill_type)

\* The row "8528  85281" is returned with the second code as HSN code and
\* as price, and the first as serial number
C26_Witness ==
    /\ Returned
    /\ fallback_steps = 0
    /\ parsed = << ("serial_number" :> Chars("8528"))
                   @@ ("hsn_code" :> Chars("85281"))
                   @@ ((bill_type \o "_price") :> 8528100) >>

(* ------------------------------------------------------------------ *)
(* _parse_json_items                                                  *)
(* ------------------------------------------------------------------ *)

JsonReturned == json_pc = "returned"

\* An identifying field of the record holds a value
Identified(item) ==
    \/ JTruthy(item["item_name"])
    \/ JTruthy(item["serial_number"])
    \/ JTruthy(item["hsn_code"])

\* The price of the role is set
PriceSet(item) == JTruthy(item[json_bill_type \o "_price"])

\* C20: every record _parse_json_items returns has an identifying field
\* (item_name, serial_number or hsn_code) that holds a value and the price
\* of the role set; an entry with a price and no identifier and an entry
\* with an identifier and no price are discarded.
C20_ProviderValidity ==
    JsonReturned =>
        \A k \in DOMAIN json_items :
            Identified(json_items[k]) /\ PriceSet(json_items[k])

\* The quantity value the entry holds: the first of quantity, qty, units
\* that is not null, zero or empty; null when there is none
RawQuantity(item) ==
    Or(JGet(item, "quantity"), Or(JGet(item, "qty"), JGet(item, "units")))

\* The greatest integer that is not above the float x, in hundredths
Floor(hundredths) == hundredths \div 100

\* max(1, n)
Clamped(n) == IF n >= 1 THEN n ELSE 1

\* The quantity the coercion rules give for the value v
ExpectedQuantity(v) ==
    CASE v.t = "int" -> Clamped(v.n)
      [] v.t = "float" -> Clamped(Floor(v.h))
      [] v.t = "str" /\ JTruthy(v) ->
             StrQuantity(Strip(v.s), First(Strip(v.s), "/"))
      [] OTHER -> 1

\* The dict entries of the provider's list
DictEntries == {k \in DOMAIN json_list : json_list[k].t = "dict"}

\* C21: for every provider quantity value _parse_quantity returns an
\* integer >= 1 and never raises; integers and floats give max(1, floor),
\* 'num/den' gives max(1, floor(num/den)) and 1 when den is 0, other
\* strings max(1, integer part of the first number), everything else 1;
\* the record's quantity lies in 1..99999.
C21_QuantityCoercion ==
    \A k \in DictEntries :
        /\ QuantityOf(json_list[k]) # Raised
        /\ QuantityOf(json_list[k]).t = "int"
        /\ QuantityOf(json_list[k]).n =
               ExpectedQuantity(RawQuantity(json_list[k]))
        /\ QuantityOf(json_list[k]).n \in 1..MaxQuantity

\* The entry at position k is a dict that normalises without an error to
\* a valid record
GoodEntry(k) ==
    /\ json_list[k].t = "dict"
    /\ Normalized(json_list[k], json_bill_type) # Raised
    /\ Identified(Normalized(json_list[k], json_bill_type))
    /\ PriceSet(Normalized(json_list[k], json_bill_type))

\* C22: when the provider's list holds bad entries (an entry that is no
\* dict, an entry whose quantity or price cannot be coerced), only those
\* are skipped: the normalised record of every good entry is returned,
\* of those after a bad entry as well as of those before it.
C22_PartialSuccess ==
    JsonReturned =>
        \A k \in DOMAIN json_list :
            GoodEntry(k) =>
                \E j \in DOMAIN json_items :
                    /\ json_from[j] = k
                    /\ json_items[j] =
                           Normalized(json_list[k], json_bill_type)

(* ------------------------------------------------------------------ *)
(* The role argument                                                  *)
(* ------------------------------------------------------------------ *)

\* C23: a call of the extractor (parse_bill, _parse_json_items) with a
\* role other than 'purchase' or 'sale' ends in an explicit error; it
\* never returns a normal result, neither an empty list nor records with
\* a price field named after the bad role.
C23_BadRoleFailsFast ==
    /\ Returned => bill_type \in BillTypes
    /\ JsonReturned => json_bill_type \in BillTypes


(* ------------------------------------------------------------------ *)
(* The admin routes                                                   *)
(* ------------------------------------------------------------------ *)

AdminRoutes == {"list_users", "create_user", "update_user", "delete_user"}

\* The route was called and answered with 200 or 201
Succeeded(r) == r.status \in {200, 201}

\* The users table holds an active row of role 'admin' with the id
StoredAdmin(user_id) == IsActive(user_id) /\ users[user_id].role = "admin"

\* The active rows of role 'admin'
Admins == {k \in DOMAIN users : StoredAdmin(k)}

\* C28: an admin route succeeds only when the caller is, at the time of
\* the request, an active user whose stored role is 'admin'; a token
\* issued before its user was demoted or deleted is turned down on
\* every later admin request.
C28_AdminByStoredRole ==
    [][(response'.route \in AdminRoutes /\ Succeeded(response'))
           => StoredAdmin(response'.token.user_id)]_vars

\* C29: from a state with an active administrator on, after any
\* sequence of login, create, update and delete requests an active user
\* of role 'admin' exists.
C29_AnAdminRemains == Admins # {}


(* ------------------------------------------------------------------ *)
(* The session routes                                                 *)
(* ------------------------------------------------------------------ *)

SessionRoutes ==
    {"upload_bill", "match_items", "get_session", "export_results",
     "update_item", "add_item", "delete_item", "delete_session"}

\* The request r answers is one of a user login_required lets through,
\* on a session of the store that belongs to another user
Foreign(r) ==
    /\ r.route \in SessionRoutes
    /\ r.session \in DOMAIN sessions
    /\ LoginRequired(r.token) = Passes
    /\ sessions[r.session].user_id # r.token.user_id

\* The request has removed or changed the session
Touched(id) == id \notin DOMAIN sessions' \/ sessions'[id] # sessions[id]

\* C27: a request of an authenticated user on a session of another user
\* is answered with an error that holds nothing but the error message and
\* leaves the store as it is; a session is changed or removed only by a
\* request of its owner.
C27_SessionIsolation ==
    [][/\ Foreign(response')
           => /\ response'.status >= 400
              /\ DOMAIN response'.body = {"error"}
              /\ sessions' = sessions
       /\ \A id \in DOMAIN sessions :
              Touched(id) => response'.token.user_id = sessions[id].user_id]_vars

\* A user other than the owner was answered 404 on a session that holds
\* items and results
C27_Witness ==
    /\ Foreign(response)
    /\ response.status = 404
    /\ sessions[response.session].purchase_items # <<>>
    /\ "matched_results" \in DOMAIN sessions[response.session]

\* The stored results are those of the session's items
Current(session) ==
    /\ "matched_results" \in DOMAIN session
    /\ "summary" \in DOMAIN session
    /\ session["summary"] = calculate_summary(session["matched_results"])
    /\ session["matched_results"] =
           match_items(session.purchase_items, session.sale_items)

\* C30: a session of status 'completed' holds matched_results and
\* summary, the summary is calculate_summary(matched_results), and
\* matched_results is what match_items returns for the items the session
\* holds; an export renders the match of the items the session holds.
C30_StoredResultsCurrent ==
    /\ \A id \in DOMAIN sessions :
           sessions[id].status = "completed" => Current(sessions[id])
    /\ (/\ response.route = "export_results"
        /\ Succeeded(response)
        /\ response.session \in DOMAIN sessions)
           => response.body.matched_results =
                  match_items(sessions[response.session].purchase_items,
                              sessions[response.session].sale_items)

====
